---- MODULE Spec2Model ----
(***************************************************************************)
(* Verification model of dagster's pythonic resource binding               *)
(* (dagster/_config/pythonic_config/__init__.py): declaration of           *)
(* resources and partial resources, resolution of required resource keys   *)
(* through the resource-id -> key mapping, and resource initialization.    *)
(***************************************************************************)
EXTENDS Naturals, Sequences, FiniteSets, TLC

\* Bound on the number of resource objects declared in one process.
MaxObjs == 3

VARIABLES
    heap,        \* declared resource objects, indexed by identity (id(obj))
    env,         \* os.environ restricted to the variable EnvName
    env_at_init, \* history: env as it was when heap[a] was constructed
    result       \* outcome of the last operation

vars == <<heap, env, env_at_init, result>>

(***************************************************************************)
(* Small helpers on functions and sequences.                               *)
(***************************************************************************)
Range(s) == {s[i] : i \in DOMAIN s}

EmptyMap == [x \in {} |-> x]

Restrict(f, S) == [x \in S |-> f[x]]

\* {**f, **g}
Merge(f, g) == [x \in (DOMAIN f) \cup (DOMAIN g) |-> IF x \in DOMAIN g THEN g[x] ELSE f[x]]

(***************************************************************************)
(* Values.  Every value is a record with a tag t:                          *)
(*   "ptr"    a declared resource object, by identity                      *)
(*   "inst"   a ConfigurableResourceFactory instance built during a run    *)
(*   "val"    a plain runtime object                                       *)
(*   "none"   None                                                         *)
(*   "lit"    a string config value                                        *)
(*   "envvar" EnvVar(name);  "env"  the config dict {"env": name}          *)
(***************************************************************************)
NoneVal == [t |-> "none"]
NoneStr == "None"
Ptr(a) == [t |-> "ptr", a |-> a]
Inst(obj) == [t |-> "inst", obj |-> obj]
Lit(v) == [t |-> "lit", v |-> v]
EnvVar(n) == [t |-> "envvar", name |-> n]
EnvSelector(n) == [t |-> "env", name |-> n]

EnvName == "X"
Unset == "unset"
EnvValues == {"e1", "e2"}

\* Resource keys: a declared object is registered, if at all, under KeyName[id].
KeyName == <<"k1", "k2", "k3", "k4", "k5">>
\* The key a function-style resource requires.
PlainRequiredKey == "db"

(***************************************************************************)
(* The user's resource classes.                                            *)
(*   Leaf   : ConfigurableResource, one config field  a: str               *)
(*   Wrap   : ConfigurableResource, one resource field r1                  *)
(*   Parent : ConfigurableIOManagerFactory, resource fields r1, r2         *)
(*   Pair   : ConfigurableResource, config fields a: str, b: str and one   *)
(*            resource field r1; it is used with configure_at_launch only  *)
(***************************************************************************)
Classes == {"Leaf", "Wrap", "Parent"}

ConfigFields(cls) ==
    CASE cls = "Leaf" -> <<"a">>
      [] cls = "Pair" -> <<"a", "b">>
      [] OTHER -> << >>

ResourceFields(cls) ==
    CASE cls \in {"Wrap", "Pair"} -> <<"r1">>
      [] cls = "Parent" -> <<"r1", "r2">>
      [] OTHER -> << >>

\* __fields__ in declaration order
ClassFields(cls) == ConfigFields(cls) \o ResourceFields(cls)

IsIOManagerFactory(cls) == cls = "Parent"

(***************************************************************************)
(* is_coercible_to_resource / separate_resource_params                     *)
(***************************************************************************)
is_coercible_to_resource(v) == v.t \in {"ptr", "inst"}

separate_resource_params(data) ==
    [resources |-> Restrict(data, {k \in DOMAIN data : is_coercible_to_resource(data[k])}),
     non_resources |-> Restrict(data, {k \in DOMAIN data : ~is_coercible_to_resource(data[k])})]

(***************************************************************************)
(* Config schema.  A Field is [config_type, is_required, default_provided, *)
(* default_value, description]; a Shape config type maps field names to    *)
(* Fields.                                                                 *)
(***************************************************************************)
ScalarField(type) ==
    [config_type |-> [kind |-> type], is_required |-> TRUE,
     default_provided |-> FALSE, default_value |-> EmptyMap, description |-> NoneStr]

\* Field(type, is_required=False)
OptionalField(type) == [ScalarField(type) EXCEPT !.is_required = FALSE]

\* Field(type, default_value=default)
DefaultField(type, default) ==
    [ScalarField(type) EXCEPT !.is_required = FALSE, !.default_provided = TRUE,
                              !.default_value = default]

\* the defaults of the fields of a shape
FieldDefaults(fields) ==
    [n \in {m \in DOMAIN fields : fields[m].default_provided} |-> fields[n].default_value]

\* Field(config=Shape(fields)): not required, with the defaults of its fields
\* for default, when every field of the shape is optional.
ShapeField(fields) ==
    LET all_optional == \A n \in DOMAIN fields : ~fields[n].is_required
    IN [config_type |-> [kind |-> "Shape", fields |-> fields],
        is_required |-> ~all_optional,
        default_provided |-> all_optional,
        default_value |-> IF all_optional THEN FieldDefaults(fields) ELSE EmptyMap,
        description |-> NoneStr]

infer_schema_from_config_class(cls, fields_to_omit) ==
    LET names == Range(ClassFields(cls)) \ fields_to_omit
    IN ShapeField([n \in names |->
           ScalarField(IF n \in Range(ConfigFields(cls)) THEN "StringSource" ELSE "Any")])

\* A StringSource takes a string or {"env": name}.
ScalarTypeOk(kind, v) == IF kind = "StringSource" THEN v.t \in {"lit", "env"} ELSE TRUE

validate_config(config_type, value) ==
    /\ DOMAIN value \subseteq DOMAIN config_type.fields
    /\ \A n \in DOMAIN config_type.fields :
           config_type.fields[n].is_required => n \in DOMAIN value
    /\ \A n \in DOMAIN value :
           ScalarTypeOk(config_type.fields[n].config_type.kind, value[n])

\* resolve_defaults: the given values over the defaults of the fields.
resolve_defaults(config_type, value) == Merge(FieldDefaults(config_type.fields), value)

\* process_config: validation, then post-processing, which reads the environment
\* for every {"env": name}.
process_config(config_type, value, environ) ==
    IF ~validate_config(config_type, value) THEN [success |-> FALSE, value |-> EmptyMap]
    ELSE IF \E n \in DOMAIN value : value[n].t = "env" /\ environ = Unset
    THEN [success |-> FALSE, value |-> EmptyMap]
    ELSE [success |-> TRUE,
          value |-> [n \in DOMAIN value |->
                        IF value[n].t = "env" THEN Lit(environ) ELSE value[n]]]

\* config_dictionary_from_values: EnvVar("X") becomes {"env": "X"}.
config_dictionary_from_values(values) ==
    [n \in DOMAIN values |->
        IF values[n].t = "envvar" THEN EnvSelector(values[n].name) ELSE values[n]]

\* a field that had a default keeps it
copy_with_default_keep(old_field, new_config_value) ==
    [config_type |-> old_field.config_type, is_required |-> FALSE,
     default_provided |-> TRUE,
     default_value |-> IF old_field.default_provided THEN old_field.default_value
                       ELSE new_config_value,
     description |-> old_field.description]

copy_with_default(old_field, new_config_value) ==
    [config_type |-> old_field.config_type, is_required |-> FALSE,
     default_provided |-> TRUE, default_value |-> new_config_value,
     description |-> old_field.description]

_apply_defaults_to_schema_field(field, additional_default_values) ==
    IF ~validate_config(field.config_type, additional_default_values)
    THEN [err |-> "DagsterInvalidConfigError", field |-> NoneVal]
    ELSE IF field.default_provided
    THEN [err |-> "none",
          field |-> copy_with_default(field,
                        resolve_defaults(field.config_type, additional_default_values))]
    ELSE [err |-> "none", field |-> copy_with_default(field, additional_default_values)]

_curry_config_schema(schema_field, data) == _apply_defaults_to_schema_field(schema_field, data)

_process_config_values(schema_field, data, environ) ==
    LET post_processed_config ==
            process_config(schema_field.config_type, config_dictionary_from_values(data), environ)
    IN IF ~post_processed_config.success
       THEN [err |-> "DagsterInvalidConfigError", value |-> EmptyMap]
       ELSE [err |-> "none", value |-> post_processed_config.value]

(***************************************************************************)
(* Resource objects.                                                       *)
(*   kind "factory": a ConfigurableResourceFactory instance                *)
(*   kind "partial": a PartialResource                                     *)
(*   kind "plain"  : a function-style ResourceDefinition                   *)
(***************************************************************************)
\* coerce_to_resource: the object a resource-valued field refers to.
coerce_to_resource(h, v) == IF v.t = "ptr" THEN h[v.a] ELSE v.obj

\* The config schema of the ResourceDefinition an object coerces to.
ConfigSchemaOf(obj) ==
    CASE obj.kind = "factory" -> obj.config_schema
      [] obj.kind = "partial" -> obj.config_schema
      [] OTHER -> ShapeField(IF obj.schema_required
                             THEN [n \in {"conn"} |-> ScalarField("StringSource")]
                             ELSE EmptyMap)

\* the default value of the schema is ignored
_is_fully_configured_without_default(h, resource) ==
    validate_config(ConfigSchemaOf(coerce_to_resource(h, resource)).config_type, EmptyMap)

_is_fully_configured(h, resource) ==
    LET config_schema == ConfigSchemaOf(coerce_to_resource(h, resource))
    IN validate_config(config_schema.config_type,
                       IF config_schema.default_provided
                       THEN config_schema.default_value ELSE EmptyMap)

\* Config.__init__ (pydantic): every declared field needs a value.
PydanticOk(cls, data) == Range(ClassFields(cls)) \subseteq DOMAIN data

\* _as_config_dict: the pydantic field values of an instance.
_as_config_dict(self) == self.fields

\* The instance ConfigurableResourceFactory.__init__(**data) leaves behind: the
\* pydantic fields and the ConfigurableResourceFactoryState.
FactoryObject(h, cls, data, config_schema) ==
    LET sep == separate_resource_params(data)
        resource_pointers == sep.resources
        data_without_resources == sep.non_resources
        casted_data_without_resources == Restrict(data, DOMAIN data_without_resources)
    IN [kind |-> "factory", cls |-> cls, fields |-> data,
        nested_partial_resources |->
            Restrict(resource_pointers,
                     {k \in DOMAIN resource_pointers :
                          ~_is_fully_configured(h, resource_pointers[k])}),
        resolved_config_dict |-> config_dictionary_from_values(casted_data_without_resources),
        config_schema |-> config_schema,
        schema |-> infer_schema_from_config_class(cls, DOMAIN resource_pointers),
        nested_resources |-> resource_pointers,
        resource_context |-> NoneVal]

\* the constructor resolves the environment variables of the config itself
ConfigurableResourceFactory_init_eager(h, cls, data) ==
    LET sep == separate_resource_params(data)
        schema == infer_schema_from_config_class(cls, DOMAIN sep.resources)
        processed == _process_config_values(schema, sep.non_resources, env)
        resolved == Merge(data, processed.value)
        curried == _curry_config_schema(schema, Restrict(resolved, DOMAIN sep.non_resources))
    IN IF ~PydanticOk(cls, data) THEN [err |-> "ValidationError", obj |-> NoneVal]
       ELSE IF processed.err # "none" THEN [err |-> processed.err, obj |-> NoneVal]
       ELSE IF curried.err # "none" THEN [err |-> curried.err, obj |-> NoneVal]
       ELSE [err |-> "none", obj |-> FactoryObject(h, cls, resolved, curried.field)]

\* ConfigurableResourceFactory.__init__(**data)
ConfigurableResourceFactory_init(h, cls, data) ==
    LET sep == separate_resource_params(data)
        resource_pointers == sep.resources
        data_without_resources == sep.non_resources
        schema == infer_schema_from_config_class(cls, DOMAIN resource_pointers)
        casted_data_without_resources == Restrict(data, DOMAIN data_without_resources)
        resolved_config_dict == config_dictionary_from_values(casted_data_without_resources)
        curried == _curry_config_schema(schema, resolved_config_dict)
    IN IF ~PydanticOk(cls, data) THEN [err |-> "ValidationError", obj |-> NoneVal]
       ELSE IF curried.err # "none" THEN [err |-> curried.err, obj |-> NoneVal]
       ELSE [err |-> "none", obj |-> FactoryObject(h, cls, data, curried.field)]

\* PartialResource.__init__(resource_cls, data)
PartialResource_init(h, resource_cls, data) ==
    LET resource_pointers == separate_resource_params(data).resources
    IN [err |-> "none",
        obj |-> [kind |-> "partial", cls |-> resource_cls, data |-> data,
                 nested_partial_resources |->
                     Restrict(resource_pointers,
                              {k \in DOMAIN resource_pointers :
                                   ~_is_fully_configured(h, resource_pointers[k])}),
                 config_schema |->
                     infer_schema_from_config_class(resource_cls, DOMAIN resource_pointers),
                 nested_resources |-> resource_pointers]]

\* A function-style ResourceDefinition.
PlainResource(schema_required) ==
    [kind |-> "plain", schema_required |-> schema_required,
     required_resource_keys |-> {PlainRequiredKey}]

\* self.__dict__ entries that separate_resource_params can see: the pydantic
\* fields of a factory instance; for a PartialResource the two fields data and
\* resource_cls, of which neither is a resource.
InstanceDict(obj) ==
    CASE obj.kind = "factory" -> obj.fields
      [] obj.kind = "partial" -> [n \in {"data", "resource_cls"} |-> [t |-> "val"]]
      [] OTHER -> EmptyMap

(***************************************************************************)
(* Required resource keys.  A result is [err, names, keys]: err is "none"   *)
(* or the error raised; names is what the error message lists.             *)
(***************************************************************************)
\* id(resource): declared objects are identified by their heap index; an
\* instance built during a run has an identity of its own, outside every mapping.
\* objects that compare equal are taken for the same object
Id_by_equality(v) ==
    IF v.t = "ptr"
    THEN CHOOSE b \in DOMAIN heap :
             /\ heap[b] = heap[v.a]
             /\ \A c \in DOMAIN heap : heap[c] = heap[v.a] => b <= c
    ELSE 0

Id(v) == IF v.t = "ptr" THEN v.a ELSE 0

\* The resource-valued entries of a dict, in field order.
ResourceAttrs(cls, d) ==
    SelectSeq(ClassFields(cls),
              LAMBDA n : n \in DOMAIN d /\ is_coercible_to_resource(d[n]))

KeysOk(keys) == [err |-> "none", names |-> EmptyMap, keys |-> keys]

\* the invariant on the keys of the nested partial resources is left unchecked
AllKeysResolved_unchecked(nested_partial_resource_keys) == TRUE

\* all(pointer_key is not None for pointer_key in nested_partial_resource_keys.values())
AllKeysResolved(nested_partial_resource_keys) ==
    \A n \in DOMAIN nested_partial_resource_keys : nested_partial_resource_keys[n] # "None"

RECURSIVE _resolve_required_resource_keys(_, _, _)
RECURSIVE _resolve_required_resource_keys_for_resource(_, _, _)
RECURSIVE ResolveEach(_, _, _, _, _)

\* the two update loops of _resolve_required_resource_keys: the union of the
\* keys of d[attrs[1]], d[attrs[2]], ..., stopping at the first error
ResolveEach(h, d, attrs, resource_mapping, acc) ==
    IF attrs = << >> THEN KeysOk(acc)
    ELSE LET r == _resolve_required_resource_keys_for_resource(
                      h, coerce_to_resource(h, d[Head(attrs)]), resource_mapping)
         IN IF r.err # "none" THEN r
            ELSE ResolveEach(h, d, Tail(attrs), resource_mapping, acc \cup r.keys)

_resolve_required_resource_keys_for_resource(h, resource, resource_id_to_key_mapping) ==
    IF resource.kind \in {"factory", "partial"}
    THEN _resolve_required_resource_keys(h, resource, resource_id_to_key_mapping)
    ELSE KeysOk(resource.required_resource_keys)

\* AllowDelayedDependencies._resolve_required_resource_keys
_resolve_required_resource_keys(h, self, resource_mapping) ==
    LET partials == self.nested_partial_resources
        nested_partial_resource_keys ==
            [attr_name \in DOMAIN partials |->
                IF Id(partials[attr_name]) \in DOMAIN resource_mapping
                THEN resource_mapping[Id(partials[attr_name])] ELSE "None"]
        from_partials ==
            ResolveEach(h, partials, ResourceAttrs(self.cls, partials), resource_mapping, {})
        resources == separate_resource_params(InstanceDict(self)).resources
        from_resources ==
            ResolveEach(h, resources, ResourceAttrs(self.cls, resources), resource_mapping,
                        from_partials.keys)
    IN IF ~AllKeysResolved(nested_partial_resource_keys)
       THEN [err |-> "CheckError", names |-> nested_partial_resource_keys, keys |-> {}]
       ELSE IF from_partials.err # "none" THEN from_partials
       ELSE IF from_resources.err # "none" THEN from_resources
       ELSE KeysOk({nested_partial_resource_keys[n] : n \in DOMAIN partials}
                       \cup from_resources.keys)

\* ResourceWithKeyMapping.required_resource_keys, for the wrapper that
\* attach_resource_id_to_key_mapping puts around a resource
required_resource_keys(h, a, resource_id_to_key_mapping) ==
    _resolve_required_resource_keys_for_resource(h, h[a], resource_id_to_key_mapping)

(***************************************************************************)
(* Execution contexts.  An InitResourceContext is                          *)
(*   [with_mapping, mapping, resources, resource_config]:                  *)
(* resources is the set of keys the context's resource registry holds a    *)
(* value for; mapping is the resource-id -> key mapping of an              *)
(* InitResourceContextWithKeyMapping (with_mapping says which class it is).*)
(***************************************************************************)
RegistryValue(k) == [t |-> "val", key |-> k]

InitResourceContext(resources, resource_config) ==
    [with_mapping |-> FALSE, mapping |-> EmptyMap, resources |-> resources,
     resource_config |-> resource_config]

InitResourceContextWithKeyMapping(context, resource_id_to_key_mapping) ==
    [context EXCEPT !.with_mapping = TRUE, !.mapping = resource_id_to_key_mapping]

\* getattr(context.resources, resource_key, None) for every entry of the mapping
resources_by_id(context) ==
    [resource_id \in DOMAIN context.mapping |->
        IF context.mapping[resource_id] \in context.resources
        THEN RegistryValue(context.mapping[resource_id]) ELSE NoneVal]

\* replace_config keeps the class of the context, and so its mapping
replace_config(context, config) == [context EXCEPT !.resource_config = config]

(***************************************************************************)
(* Lifecycle methods of a ConfigurableResourceFactory.  Each returns       *)
(* [err, self, out]: self is the instance the method was called on as it   *)
(* is afterwards, out the instance the method returns.                     *)
(***************************************************************************)
\* out = self.__class__(**...), with the resource context of self carried over;
\* r is the outcome of the constructor
UpdatedCopy(self, r) ==
    [err |-> r.err, self |-> self,
     out |-> IF r.err = "none"
             THEN [r.obj EXCEPT !.resource_context = self.resource_context]
             ELSE NoneVal]

\* the values are set on the instance itself, which is then returned
_with_updated_values_in_place(h, self, values) ==
    LET r == ConfigurableResourceFactory_init(h, self.cls, Merge(_as_config_dict(self), values))
        updated == [r.obj EXCEPT !.resource_context = self.resource_context]
    IN [err |-> r.err,
        self |-> IF r.err = "none" THEN updated ELSE self,
        out |-> IF r.err = "none" THEN updated ELSE NoneVal]

_with_updated_values(h, self, values) ==
    UpdatedCopy(self,
                ConfigurableResourceFactory_init(h, self.cls,
                                                 Merge(_as_config_dict(self), values)))

\* copy._state__internal__ = copy._state__internal__._replace(resource_context=...)
BindContext(copy, resource_context) ==
    [err |-> copy.err, self |-> copy.self,
     out |-> IF copy.err = "none"
             THEN [copy.out EXCEPT !.resource_context = resource_context]
             ELSE NoneVal]

\* the copy is returned without the context being bound on it
with_resource_context_unbound(h, self, resource_context) ==
    _with_updated_values(h, self, EmptyMap)

with_resource_context(h, self, resource_context) ==
    BindContext(_with_updated_values(h, self, EmptyMap), resource_context)

\* return self._with_updated_values(post_processed_data), unless
\* _process_config_values has raised
UpdateWithProcessed(h, self, post_processed_data) ==
    IF post_processed_data.err # "none"
    THEN [err |-> post_processed_data.err, self |-> self, out |-> NoneVal]
    ELSE _with_updated_values(h, self, post_processed_data.value)

_resolve_and_update_env_vars(h, self, environ) ==
    UpdateWithProcessed(h, self,
                        _process_config_values(self.schema, self.resolved_config_dict, environ))

(***************************************************************************)
(* Resource initialization.  A run carries st = [log, next, heap]: the     *)
(* events so far, the number of the next call frame, and the declared      *)
(* objects.  Events:                                                       *)
(*   call   a resource function is entered (frame, parent frame, id, attr) *)
(*   step   a lifecycle method has run on `before`, leaving it `after`     *)
(*   create the user's factory method runs on the instance `on`            *)
(*   return / raise  the resource function of the frame ends               *)
(* A method that calls others in sequence is written as a chain: each link *)
(* takes the outcome of the call before it as its last argument.           *)
(***************************************************************************)
Emit(st, e) == [st EXCEPT !.log = Append(@, e)]

StepEvent(frame, method, r, before) ==
    [ev |-> "step", frame |-> frame, method |-> method, err |-> r.err,
     before |-> before, after |-> r.self]

\* _create_object_fn: create_io_manager for an IO manager factory, otherwise
\* create_resource; a ConfigurableResource returns itself, an IO manager
\* factory a new object.
CreateVia(cls) == IF IsIOManagerFactory(cls) THEN "create_io_manager" ELSE "create_resource"

_create_object_fn(self) ==
    IF IsIOManagerFactory(self.cls) THEN [t |-> "val", made_by |-> self] ELSE Inst(self)

\* every resource attribute is evaluated, the partial ones too
NonPartialAttrs_all(cls, resources_to_update, partial_resources_to_update) ==
    ResourceAttrs(cls, resources_to_update)

\* the attributes of resources_to_update that are evaluated:
\* "if attr_name not in partial_resources_to_update"
NonPartialAttrs(cls, resources_to_update, partial_resources_to_update) ==
    SelectSeq(ResourceAttrs(cls, resources_to_update),
              LAMBDA n : n \notin DOMAIN partial_resources_to_update)

\* an exception leaves the method: no value, the instance as it is
Raised(st, err, self) == [st |-> st, err |-> err, value |-> NoneVal, self |-> self]

RECURSIVE ResourceFn(_, _, _, _, _, _)
RECURSIVE _call_resource_fn_with_default(_, _, _, _, _, _)
RECURSIVE EvalResources(_, _, _, _, _, _, _)
RECURSIVE _resolve_and_update_nested_resources(_, _, _, _, _)
RECURSIVE _initialize_and_run(_, _, _, _, _)

\* an exception of a nested resource is swallowed: its value is None and the
\* remaining attributes are evaluated
EvalResources_swallow(st, environ, d, attrs, context, frame, acc) ==
    IF attrs = << >> THEN [st |-> st, err |-> "none", values |-> acc]
    ELSE LET r == _call_resource_fn_with_default(st, environ, d[Head(attrs)], context,
                                                 frame, Head(attrs))
         IN EvalResources(r.st, environ, d, Tail(attrs), context, frame,
                          Merge(acc, [n \in {Head(attrs)} |->
                                         IF r.err = "none" THEN r.value ELSE NoneVal]))

\* the comprehension after the call for Head(attrs) has ended with r: an
\* exception ends it, a value is kept and the remaining attributes follow
EvalRest(environ, d, attrs, context, frame, acc, r) ==
    IF r.err # "none" THEN [st |-> r.st, err |-> r.err, values |-> acc]
    ELSE EvalResources(r.st, environ, d, Tail(attrs), context, frame,
                       Merge(acc, [n \in {Head(attrs)} |-> r.value]))

\* the comprehension over resources_to_update: one call per attribute, in order
EvalResources(st, environ, d, attrs, context, frame, acc) ==
    IF attrs = << >> THEN [st |-> st, err |-> "none", values |-> acc]
    ELSE EvalRest(environ, d, attrs, context, frame, acc,
                  _call_resource_fn_with_default(st, environ, d[Head(attrs)], context,
                                                 frame, Head(attrs)))

\* partial_resources_to_update: the registry's value for every partial nested
\* resource, looked up by identity
PartialResourcesToUpdate(self, context) ==
    [attr_name \in DOMAIN self.nested_partial_resources |->
        resources_by_id(context)[Id(self.nested_partial_resources[attr_name])]]

\* resources_to_update, _ = separate_resource_params(self.__dict__)
ResourcesToUpdate(self) == separate_resource_params(InstanceDict(self)).resources

\* the outcome r of a lifecycle method, with the state of the run
InState(st, r) == [st |-> st, err |-> r.err, self |-> r.self, out |-> r.out]

\* to_update = {**resources_to_update, **partial_resources_to_update};
\* return self._with_updated_values(to_update); ev is the outcome of the
\* comprehension
UpdateNested(self, partial_resources_to_update, ev) ==
    IF ev.err # "none"
    THEN [st |-> ev.st, err |-> ev.err, self |-> self, out |-> NoneVal]
    ELSE InState(ev.st,
                 _with_updated_values(ev.st.heap, self,
                                      Merge(ev.values, partial_resources_to_update)))

_resolve_and_update_nested_resources(st, environ, self, context, frame) ==
    IF DOMAIN self.nested_partial_resources # {} /\ ~context.with_mapping
    THEN [st |-> st, err |-> "CheckError", self |-> self, out |-> NoneVal]
    ELSE IF \E n \in DOMAIN self.nested_partial_resources :
                Id(self.nested_partial_resources[n]) \notin DOMAIN resources_by_id(context)
    THEN [st |-> st, err |-> "KeyError", self |-> self, out |-> NoneVal]
    ELSE UpdateNested(self, PartialResourcesToUpdate(self, context),
                      EvalResources(st, environ, ResourcesToUpdate(self),
                                    NonPartialAttrs(self.cls, ResourcesToUpdate(self),
                                                    PartialResourcesToUpdate(self, context)),
                                    context, frame, EmptyMap))

\* the factory method runs first, the nested resources are resolved afterwards
_initialize_and_run_factory_first(st, environ, self, context, frame) ==
    LET r2 == with_resource_context(st.heap, self, context)
        st2 == Emit(st, StepEvent(frame, "with_resource_context", r2, self))
        r3 == _resolve_and_update_env_vars(st2.heap, r2.out, environ)
        st3 == Emit(st2, StepEvent(frame, "_resolve_and_update_env_vars", r3, r2.out))
        value == _create_object_fn(r3.out)
        st4 == Emit(st3, [ev |-> "create", frame |-> frame, via |-> CreateVia(self.cls),
                          on |-> r3.out, context |-> context, value |-> value])
        r1 == _resolve_and_update_nested_resources(st4, environ, r3.out, context, frame)
        st5 == Emit(r1.st, StepEvent(frame, "_resolve_and_update_nested_resources", r1, r3.out))
    IN IF r2.err # "none" THEN Raised(st2, r2.err, r2.self)
       ELSE IF r3.err # "none" THEN Raised(st3, r3.err, r2.self)
       ELSE [st |-> st5, err |-> r1.err,
             value |-> IF r1.err = "none" THEN value ELSE NoneVal, self |-> r2.self]

\* return updated_resource._create_object_fn(context)
CreateObject(st, frame, context, updated_resource, self) ==
    [st |-> Emit(st, [ev |-> "create", frame |-> frame,
                      via |-> CreateVia(updated_resource.cls),
                      on |-> updated_resource, context |-> context,
                      value |-> _create_object_fn(updated_resource)]),
     err |-> "none", value |-> _create_object_fn(updated_resource), self |-> self]

\* ._resolve_and_update_env_vars() has ended with r3, called on `before`
AfterEnvVars(st, frame, context, self, before, r3) ==
    IF r3.err # "none"
    THEN Raised(Emit(st, StepEvent(frame, "_resolve_and_update_env_vars", r3, before)),
                r3.err, self)
    ELSE CreateObject(Emit(st, StepEvent(frame, "_resolve_and_update_env_vars", r3, before)),
                      frame, context, r3.out, self)

\* .with_resource_context(context) has ended with r2, called on `before`
AfterContext(st, environ, frame, context, self, before, r2) ==
    IF r2.err # "none"
    THEN Raised(Emit(st, StepEvent(frame, "with_resource_context", r2, before)), r2.err, self)
    ELSE AfterEnvVars(Emit(st, StepEvent(frame, "with_resource_context", r2, before)),
                      frame, context, self, r2.out,
                      _resolve_and_update_env_vars(st.heap, r2.out, environ))

\* self._resolve_and_update_nested_resources(context) has ended with r1
AfterNested(environ, frame, context, before, r1) ==
    IF r1.err # "none"
    THEN Raised(Emit(r1.st, StepEvent(frame, "_resolve_and_update_nested_resources",
                                      r1, before)),
                r1.err, r1.self)
    ELSE AfterContext(Emit(r1.st, StepEvent(frame, "_resolve_and_update_nested_resources",
                                            r1, before)),
                      environ, frame, context, r1.self, r1.out,
                      with_resource_context(r1.st.heap, r1.out, context))

_initialize_and_run(st, environ, self, context, frame) ==
    AfterNested(environ, frame, context, self,
                _resolve_and_update_nested_resources(st, environ, self, context, frame))

\* The instance whose _initialize_and_run is the resource function: a factory
\* instance itself; for a PartialResource,
\* instantiated = resource_cls(**context.resource_config, **data)
\* {**context.resource_config, **data}: a key given twice keeps the value of data
Instantiated_data_wins(h, obj, context) ==
    IF obj.kind = "factory" THEN [err |-> "none", obj |-> obj]
    ELSE ConfigurableResourceFactory_init(h, obj.cls, Merge(context.resource_config, obj.data))

Instantiated(h, obj, context) ==
    IF obj.kind = "factory" THEN [err |-> "none", obj |-> obj]
    ELSE IF (DOMAIN context.resource_config) \cap (DOMAIN obj.data) # {}
    THEN [err |-> "TypeError", obj |-> NoneVal]
    ELSE ConfigurableResourceFactory_init(h, obj.cls, Merge(context.resource_config, obj.data))

\* the object the resource function belongs to is what the call leaves behind
LeavingObject(obj, r) == IF obj.kind = "partial" THEN [r EXCEPT !.self = obj] ELSE r

\* return instantiated._initialize_and_run(context)
RunInstantiated(st, environ, obj, context, frame, instantiated) ==
    IF instantiated.err # "none" THEN Raised(st, instantiated.err, obj)
    ELSE LeavingObject(obj, _initialize_and_run(st, environ, instantiated.obj, context, frame))

\* the body of the resource function of obj; a function-style resource just
\* returns its value
ResourceBody(st, environ, v, obj, context, frame) ==
    IF obj.kind = "plain"
    THEN [st |-> st, err |-> "none", value |-> [t |-> "val", plain |-> Id(v)], self |-> obj]
    ELSE RunInstantiated(st, environ, obj, context, frame, Instantiated(st.heap, obj, context))

\* the resource function ends with r: the object it ran on is as the run left
\* it, and the value or the exception goes to the caller
EndOfCall(v, frame, r) ==
    [st |-> Emit(IF v.t = "ptr"
                 THEN [r.st EXCEPT !.heap = [@ EXCEPT ![v.a] = r.self]]
                 ELSE r.st,
                 IF r.err = "none"
                 THEN [ev |-> "return", frame |-> frame, value |-> r.value]
                 ELSE [ev |-> "raise", frame |-> frame, err |-> r.err]),
     err |-> r.err, value |-> r.value]

\* obj.resource_fn(context), for the resource definition the value v coerces to
ResourceFn(st, environ, v, context, parent, attr) ==
    EndOfCall(v, st.next,
              ResourceBody(Emit([st EXCEPT !.next = @ + 1],
                                [ev |-> "call", frame |-> st.next, parent |-> parent,
                                 id |-> Id(v), attr |-> attr]),
                           environ, v, coerce_to_resource(st.heap, v), context, st.next))

_call_resource_fn_with_default(st, environ, v, context, parent, attr) ==
    LET config_schema == ConfigSchemaOf(coerce_to_resource(st.heap, v))
    IN ResourceFn(st, environ, v,
                  IF config_schema.default_provided
                  THEN replace_config(context, config_schema.default_value)
                  ELSE context,
                  parent, attr)

(***************************************************************************)
(* Inputs of the declarations.                                             *)
(***************************************************************************)
\* the classes configure_at_launch is used on
PartialClasses == {"Leaf", "Wrap"}

\* the config values resources are declared with
ConfigInputs == {EnvVar(EnvName)}

\* keyword arguments for a class: a value for every config field, a declared
\* resource for every resource field
DataInputs(h, cls) ==
    {d \in [Range(ClassFields(cls)) -> ConfigInputs \cup {Ptr(a) : a \in DOMAIN h}] :
        /\ \A n \in Range(ConfigFields(cls)) : d[n] \in ConfigInputs
        /\ \A n \in Range(ResourceFields(cls)) : d[n].t = "ptr"}

UsesEnv(data) == \E n \in DOMAIN data : data[n].t = "envvar"

Init ==
    /\ heap = << >>
    /\ env = Unset
    /\ env_at_init = << >>
    /\ result = [op |-> "none"]

\* No outcome is waiting to be taken by the caller.
Idle == result.op = "none"

\* obj = Cls(**data)
DeclareResource ==
    /\ Idle
    /\ Len(heap) < MaxObjs
    /\ \E cls \in Classes : \E data \in DataInputs(heap, cls) :
         LET r == ConfigurableResourceFactory_init(heap, cls, data)
         IN /\ heap' = IF r.err = "none" THEN Append(heap, r.obj) ELSE heap
            /\ env_at_init' = IF r.err = "none"
                              THEN Append(env_at_init, IF UsesEnv(data) THEN env ELSE "n/a")
                              ELSE env_at_init
            /\ result' = [op |-> "declare", err |-> r.err, uses_env |-> UsesEnv(data)]
    /\ UNCHANGED env

\* obj = Cls.configure_at_launch(**data): config is left to launch time, nested
\* resources are given now
ConfigureAtLaunch ==
    /\ Idle
    /\ Len(heap) < MaxObjs
    /\ \E cls \in PartialClasses :
       \E data \in {Restrict(d, Range(ResourceFields(cls))) : d \in DataInputs(heap, cls)} :
         LET r == PartialResource_init(heap, cls, data)
         IN /\ heap' = Append(heap, r.obj)
            /\ env_at_init' = Append(env_at_init, "n/a")
            /\ result' = [op |-> "declare", err |-> r.err, uses_env |-> FALSE]
    /\ UNCHANGED env

\* a function-style @resource
DeclarePlain ==
    /\ Idle
    /\ Len(heap) < MaxObjs
    /\ heap' = Append(heap, PlainResource(FALSE))
    /\ env_at_init' = Append(env_at_init, "n/a")
    /\ result' = [op |-> "declare", err |-> "none", uses_env |-> FALSE]
    /\ UNCHANGED env

\* os.environ[EnvName] = v / del os.environ[EnvName]
SetEnv ==
    /\ Idle
    /\ \E v \in EnvValues \cup {Unset} :
         /\ v # env
         /\ env' = v
    /\ UNCHANGED <<heap, env_at_init, result>>

\* The objects of the heap that are not fully configured: the ones a Definitions
\* object has to be given under a key of their own.
NotFullyConfigured(h) == {a \in DOMAIN h : ~_is_fully_configured(h, Ptr(a))}

\* The id -> key mappings: any set of those objects, each under its key.
KeyMappings(h) == {[a \in D |-> KeyName[a]] : D \in SUBSET NotFullyConfigured(h)}

\* The operations below are applied to the object declared last: what they do
\* depends only on that object and the objects declared before it, and every
\* object is the last one right after its declaration.
Top == Len(heap)

\* ResourceWithKeyMapping(obj, mapping).required_resource_keys
ResolveKeys ==
    /\ Idle
    /\ Top > 0
    /\ \E m \in KeyMappings(heap) :
         result' = [op |-> "keys", a |-> Top, mapping |-> m,
                    out |-> required_resource_keys(heap, Top, m)]
    /\ UNCHANGED <<heap, env, env_at_init>>

\* The launch-time config of a run: for a partial resource with config fields,
\* nothing or a value for each; otherwise nothing.
LaunchConfigs(obj) ==
    IF obj.kind = "partial" /\ ConfigFields(obj.cls) # << >>
    THEN {EmptyMap, [n \in Range(ConfigFields(obj.cls)) |-> Lit("w")]}
    ELSE {EmptyMap}

\* what a run r of the resource function of heap[a] leaves: the declared
\* objects, and the outcome for the caller
RunOutcome(a, context, r) ==
    [heap |-> r.st.heap,
     result |-> [op |-> "run", a |-> a, context |-> context, log |-> r.st.log,
                 err |-> r.err, value |-> r.value]]

StartOfRun == [log |-> << >>, next |-> 1, heap |-> heap]

\* ResourceWithKeyMapping.setup_context_resources_and_call: the resource
\* function of the wrapper that attach_resource_id_to_key_mapping returns
SetupContextResourcesAndCall ==
    /\ Idle
    /\ Top > 0
    /\ heap[Top].kind \in {"factory", "partial"}
    /\ \E m \in KeyMappings(heap) : \E present \in SUBSET DOMAIN m :
       \E config \in LaunchConfigs(heap[Top]) :
         LET context == InitResourceContext({m[a] : a \in present}, config)
             context_with_key_mapping == InitResourceContextWithKeyMapping(context, m)
         IN \E out \in {RunOutcome(Top, context_with_key_mapping,
                                  ResourceFn(StartOfRun, env, Ptr(Top),
                                             context_with_key_mapping, 0, ""))} :
                /\ heap' = out.heap
                /\ result' = out.result
    /\ UNCHANGED <<env, env_at_init>>

\* resource_fn(context) with a plain InitResourceContext, as for a resource
\* that was given no mapping
CallResourceFn ==
    /\ Idle
    /\ Top > 0
    /\ \E config \in LaunchConfigs(heap[Top]) :
         LET context == InitResourceContext({}, config)
         IN \E out \in {RunOutcome(Top, context,
                                  ResourceFn(StartOfRun, env, Ptr(Top), context, 0, ""))} :
                /\ heap' = out.heap
                /\ result' = out.result
    /\ UNCHANGED <<env, env_at_init>>

\* the caller takes the outcome of the last operation
Return ==
    /\ ~Idle
    /\ result' = [op |-> "none"]
    /\ UNCHANGED <<heap, env, env_at_init>>

Next ==
    \/ DeclareResource
    \/ ConfigureAtLaunch
    \/ DeclarePlain
    \/ SetEnv
    \/ ResolveKeys
    \/ SetupContextResourcesAndCall
    \/ CallResourceFn
    \/ Return

Spec == Init /\ [][Next]_vars

(***************************************************************************)
(* Reading the log of a run.  The definitions below are used on states     *)
(* with result.op = "run" only.                                            *)
(***************************************************************************)
IsRun == result.op = "run"

Events(kind) == {i \in DOMAIN result.log : result.log[i].ev = kind}

\* the calls made by the initialization of frame f
CallsOf(f) == {i \in Events("call") : result.log[i].parent = f}

StepsOf(f, method) ==
    {i \in Events("step") : result.log[i].frame = f /\ result.log[i].method = method}

CreatesOf(f) == {i \in Events("create") : result.log[i].frame = f}

ReturnsOf(f) == {i \in Events("return") : result.log[i].frame = f}

RaisesOf(f) == {i \in Events("raise") : result.log[i].frame = f}

\* the resource-valued attributes of an instance, and the partial ones
ResourceAttrsOf(self) == DOMAIN separate_resource_params(InstanceDict(self)).resources

PartialAttrsOf(self) == DOMAIN self.nested_partial_resources

HasEnvSelector(d) == \E n \in DOMAIN d : d[n].t \in {"env", "envvar"}

HasPointer(d) == \E n \in DOMAIN d : d[n].t = "ptr"

C2_NestedBeforeOwner ==
    IsRun =>
        \A c \in Events("create") :
            LET f == result.log[c].frame
                on == result.log[c].on
            IN /\ \A i \in CallsOf(f) :
                      /\ i < c
                      /\ \E e \in ReturnsOf(result.log[i].frame) :
                             /\ e < c
                             /\ on.fields[result.log[i].attr] = result.log[e].value
               /\ \A s \in StepsOf(f, "_resolve_and_update_nested_resources") :
                      \A n \in ResourceAttrsOf(result.log[s].before)
                                   \ PartialAttrsOf(result.log[s].before) :
                          \E i \in CallsOf(f) : result.log[i].attr = n
               /\ \A g \in Events("create") :
                      (\E i \in CallsOf(f) : result.log[i].frame = result.log[g].frame)
                          => g < c

\* a factory method has run for a resource below one whose own factory method
\* has run
C2_NestedFactoryRan ==
    /\ IsRun
    /\ \E c, g \in Events("create") :
           \E i \in CallsOf(result.log[c].frame) :
               result.log[i].frame = result.log[g].frame

(***************************************************************************)
(* C3.  A resource function that returns has run the factory method of its *)
(* class exactly once, after the three update steps in order, on an        *)
(* instance whose nested resources are resolved, that has the context      *)
(* bound and no environment variable left unresolved, and it returns what  *)
(* the factory method returned.  One that raises has not run it.           *)
(***************************************************************************)
C3_FactoryOnceOnUpdatedCopy ==
    IsRun =>
        \A i \in Events("call") :
            LET f == result.log[i].frame
            IN /\ Cardinality(CreatesOf(f)) <= 1
               /\ RaisesOf(f) # {} => CreatesOf(f) = {}
               /\ \A e \in ReturnsOf(f) :
                      heap[result.log[i].id].kind # "plain" =>
                          \E c \in CreatesOf(f) :
                              LET on == result.log[c].on
                              IN /\ c < e
                                 /\ result.log[e].value = result.log[c].value
                                 /\ result.log[c].via = CreateVia(heap[result.log[i].id].cls)
                                 /\ on.cls = heap[result.log[i].id].cls
                                 /\ ~HasPointer(on.fields)
                                 /\ ~HasEnvSelector(on.fields)
                                 /\ on.resource_context # NoneVal
                                 /\ on.resource_context = result.log[c].context
                                 /\ \E s1 \in StepsOf(f, "_resolve_and_update_nested_resources") :
                                    \E s2 \in StepsOf(f, "with_resource_context") :
                                    \E s3 \in StepsOf(f, "_resolve_and_update_env_vars") :
                                        /\ s1 < s2 /\ s2 < s3 /\ s3 < c
                                        /\ ~HasPointer(result.log[s2].before.fields)
                                        /\ result.log[s3].before.resource_context
                                               = result.log[c].context

\* an IO manager factory with nested resources has been initialized
C3_FactoryRan ==
    /\ IsRun
    /\ result.err = "none"
    /\ \E c \in Events("create") :
           /\ result.log[c].via = "create_io_manager"
           /\ CallsOf(result.log[c].frame) # {}
    /\ \E c \in Events("create") : result.log[c].via = "create_resource"

(***************************************************************************)
(* Reading the declared objects.                                           *)
(***************************************************************************)
IsKeys == result.op = "keys"

\* the attributes of the partial nested resources of obj that the mapping m
\* has no entry for
Unmapped(obj, m) ==
    {n \in DOMAIN obj.nested_partial_resources : obj.nested_partial_resources[n].a \notin DOMAIN m}

\* the declared objects reachable from a through nested resources, a included
RECURSIVE NestedClosure(_, _)
NestedClosure(h, a) ==
    IF h[a].kind = "plain" THEN {a}
    ELSE {a} \cup UNION {NestedClosure(h, h[a].nested_resources[n].a) :
                             n \in DOMAIN h[a].nested_resources}

\* every partial nested resource, at any depth below a, has an entry in m
AllNestedPartialsMapped(h, a, m) ==
    \A b \in NestedClosure(h, a) : h[b].kind # "plain" => Unmapped(h[b], m) = {}

KeyOrNone(m, a) == IF a \in DOMAIN m THEN m[a] ELSE "None"

RECURSIVE UnionOfNestedKeys(_, _, _)
UnionOfNestedKeys(h, a, m) ==
    IF h[a].kind = "plain" THEN h[a].required_resource_keys
    ELSE {KeyOrNone(m, h[a].nested_partial_resources[n].a) :
              n \in DOMAIN h[a].nested_partial_resources}
         \cup UNION {UnionOfNestedKeys(h, h[a].nested_resources[n].a, m) :
                         n \in DOMAIN h[a].nested_resources}

C5_RequiredKeysAreUnion ==
    (IsKeys /\ result.out.err = "none")
        => result.out.keys = UnionOfNestedKeys(heap, result.a, result.mapping)

(***************************************************************************)
(* C6.  No step changes a declared object, and each of the three update    *)
(* methods of a run leaves the instance it is called on as it was.         *)
(***************************************************************************)
StepsLeaveInstance ==
    IsRun => \A s \in Events("step") : result.log[s].after = result.log[s].before

C6_NoMutation ==
    [][/\ \A a \in DOMAIN heap : a \in DOMAIN heap' /\ heap'[a] = heap[a]
       /\ StepsLeaveInstance']_vars

\* a run has succeeded in which an update method returned an instance that
\* differs from the one it was called on
C6_UpdatedCopyDiffers ==
    /\ IsRun
    /\ result.err = "none"
    /\ \E s \in StepsOf(1, "_resolve_and_update_nested_resources") :
       \E c \in CreatesOf(1) :
           /\ result.log[s].before = heap[result.a]
           /\ result.log[c].on # heap[result.a]
           /\ result.log[c].on.fields # heap[result.a].fields
           /\ heap[result.a].resource_context = NoneVal

(***************************************************************************)
(* C7.  When the resource function of a nested resource raises, the        *)
(* initialization of its parent raises the same error, the factory method  *)
(* of the parent does not run, and the parent calls no further nested      *)
(* resource.                                                               *)
(***************************************************************************)
C7_NestedFailurePropagates ==
    IsRun =>
        /\ \A x \in Events("raise") : \A i \in Events("call") :
               (result.log[i].frame = result.log[x].frame /\ result.log[i].parent # 0) =>
                   LET f == result.log[i].parent
                   IN /\ CreatesOf(f) = {}
                      /\ \E y \in RaisesOf(f) :
                             x < y /\ result.log[y].err = result.log[x].err
                      /\ \A j \in CallsOf(f) : j < x
        /\ \A x \in RaisesOf(1) : result.err = result.log[x].err
        /\ result.err # "none" => RaisesOf(1) # {}

\* a nested resource has raised while a later nested resource of the same
\* parent was still to be initialized
C7_NestedRaisedBeforeSibling ==
    /\ IsRun
    /\ \E x \in Events("raise") : \E i \in Events("call") :
           /\ result.log[i].frame = result.log[x].frame
           /\ result.log[i].parent # 0
           /\ result.log[i].attr = "r1"
           /\ \E s \in StepsOf(result.log[i].parent, "_resolve_and_update_nested_resources") :
                  "r2" \in ResourceAttrsOf(result.log[s].before)
                               \ PartialAttrsOf(result.log[s].before)

(***************************************************************************)
(* C8.  A partial resource that two parents refer to is given, in both,    *)
(* the key the mapping holds for the identity of that object, and both     *)
(* parents are initialized with the registry's value under that key.       *)
(***************************************************************************)
\* pairs <<parent, attribute>> under which the declared object a is a partial
\* nested resource
PartialReferences(h, a) ==
    {pn \in (DOMAIN h) \X {"r1", "r2"} :
        /\ h[pn[1]].kind # "plain"
        /\ pn[2] \in DOMAIN h[pn[1]].nested_partial_resources
        /\ h[pn[1]].nested_partial_resources[pn[2]].a = a}

RegistryLookup(context, a) ==
    IF context.mapping[a] \in context.resources
    THEN RegistryValue(context.mapping[a]) ELSE NoneVal

C8_SharedPartialSameKeyAndValue ==
    /\ IsKeys =>
           \A a \in DOMAIN result.mapping : \A pn \in PartialReferences(heap, a) :
               LET r == required_resource_keys(heap, pn[1], result.mapping)
               IN /\ r.err = "none" => result.mapping[a] \in r.keys
                  /\ (r.err # "none" /\ Unmapped(heap[pn[1]], result.mapping) # {})
                         => r.names[pn[2]] = result.mapping[a]
    /\ IsRun =>
           \A c \in Events("create") :
           \A s \in StepsOf(result.log[c].frame, "_resolve_and_update_nested_resources") :
               \A n \in PartialAttrsOf(result.log[s].before) :
                   result.log[c].on.fields[n]
                       = RegistryLookup(result.context, result.log[s].before.fields[n].a)

\* two parents that share a partial nested resource have been initialized in
\* one run, with a value the registry holds for it
C8_TwoParentsOneRegistryValue ==
    /\ IsRun
    /\ result.err = "none"
    /\ \E c1, c2 \in Events("create") :
           /\ result.log[c1].frame # result.log[c2].frame
           /\ \E s1 \in StepsOf(result.log[c1].frame, "_resolve_and_update_nested_resources") :
              \E s2 \in StepsOf(result.log[c2].frame, "_resolve_and_update_nested_resources") :
              \E n1 \in PartialAttrsOf(result.log[s1].before) :
              \E n2 \in PartialAttrsOf(result.log[s2].before) :
                  /\ result.log[s1].before.fields[n1] = result.log[s2].before.fields[n2]
                  /\ result.log[c1].on.fields[n1] = result.log[c2].on.fields[n2]
                  /\ result.log[c1].on.fields[n1] # NoneVal

(***************************************************************************)
(* C9.  Every declared resource records as nested resources exactly the    *)
(* resource-valued arguments it was given, and as partial nested resources *)
(* exactly those of them whose config schema does not validate with its    *)
(* default value, or with the empty config when it has no default.         *)
(***************************************************************************)
ValidatesWithDefault(obj) ==
    LET config_schema == ConfigSchemaOf(obj)
    IN IF config_schema.default_provided
       THEN validate_config(config_schema.config_type, config_schema.default_value)
       ELSE validate_config(config_schema.config_type, EmptyMap)

GivenArguments(obj) == IF obj.kind = "factory" THEN obj.fields ELSE obj.data

C9_PartialIffNotFullyConfigured ==
    \A a \in DOMAIN heap :
        heap[a].kind # "plain" =>
            LET obj == heap[a]
                given == GivenArguments(obj)
                resource_args == {k \in DOMAIN given : given[k].t = "ptr"}
            IN /\ obj.nested_resources = Restrict(given, resource_args)
               /\ DOMAIN obj.nested_partial_resources \subseteq DOMAIN obj.nested_resources
               /\ \A k \in DOMAIN obj.nested_resources :
                      /\ k \in DOMAIN obj.nested_partial_resources
                             <=> ~ValidatesWithDefault(heap[obj.nested_resources[k].a])
                      /\ k \in DOMAIN obj.nested_partial_resources
                             => obj.nested_partial_resources[k] = obj.nested_resources[k]

\* a resource has been declared with a partial and with a fully configured
\* nested resource that has config of its own
C9_PartialAndFullNested ==
    \E a \in DOMAIN heap :
        /\ heap[a].kind # "plain"
        /\ DOMAIN heap[a].nested_partial_resources # {}
        /\ \E k \in DOMAIN heap[a].nested_resources :
               /\ k \notin DOMAIN heap[a].nested_partial_resources
               /\ heap[heap[a].nested_resources[k].a].kind = "factory"
               /\ heap[heap[a].nested_resources[k].a].cls = "Leaf"

(***************************************************************************)
(* C10.  Declaring a resource whose config refers to an environment        *)
(* variable never fails, set or not; the variable is read by the run: the  *)
(* env step fails exactly when the config refers to the variable and it is *)
(* unset then, and the instance the factory method runs on holds the value *)
(* the variable has at that time.                                          *)
(***************************************************************************)
C10_EnvVarReadAtRunTime ==
    /\ result.op = "declare" => result.err = "none"
    /\ IsRun =>
           /\ \A s \in Events("step") :
                  result.log[s].method = "_resolve_and_update_env_vars" =>
                      LET before == result.log[s].before
                      IN /\ (result.log[s].err # "none")
                                <=> (HasEnvSelector(before.resolved_config_dict) /\ env = Unset)
                         /\ \A c \in CreatesOf(result.log[s].frame) :
                                \A n \in DOMAIN before.resolved_config_dict :
                                    before.resolved_config_dict[n].t = "env"
                                        => result.log[c].on.fields[n] = Lit(env)
           /\ result.err = "DagsterInvalidConfigError" => env = Unset

\* a resource declared while the variable was unset has been initialized
\* with the value the variable was given afterwards
C10_DeclaredUnsetRunSet ==
    /\ IsRun
    /\ result.err = "none"
    /\ heap[result.a].kind = "factory"
    /\ heap[result.a].cls = "Leaf"
    /\ env_at_init[result.a] = Unset
    /\ env \in EnvValues
    /\ \E c \in CreatesOf(1) : result.log[c].on.fields["a"] = Lit(env)

(***************************************************************************)
(* Execution events (dagster/_core/events/__init__.py).                    *)
(*                                                                         *)
(* A DagsterEvent is a record of its ten fields.  Optional strings that    *)
(* are None are NoneStr; other optional values that are None are NoneVal.  *)
(* A payload (event_specific_data) is a record with its class name in cls. *)
(***************************************************************************)
\* DagsterEventType: the values of the enum
DagsterEventType ==
    {"STEP_OUTPUT", "STEP_INPUT", "STEP_FAILURE", "STEP_START", "STEP_SUCCESS",
     "STEP_SKIPPED", "STEP_WORKER_STARTING", "STEP_WORKER_STARTED",
     "RESOURCE_INIT_STARTED", "RESOURCE_INIT_SUCCESS", "RESOURCE_INIT_FAILURE",
     "STEP_UP_FOR_RETRY", "STEP_RESTARTED", "ASSET_MATERIALIZATION",
     "ASSET_MATERIALIZATION_PLANNED", "ASSET_OBSERVATION", "STEP_EXPECTATION_RESULT",
     "PIPELINE_ENQUEUED", "PIPELINE_DEQUEUED", "PIPELINE_STARTING", "PIPELINE_START",
     "PIPELINE_SUCCESS", "PIPELINE_FAILURE", "PIPELINE_CANCELING", "PIPELINE_CANCELED",
     "OBJECT_STORE_OPERATION", "ASSET_STORE_OPERATION", "LOADED_INPUT", "HANDLED_OUTPUT",
     "ENGINE_EVENT", "HOOK_COMPLETED", "HOOK_ERRORED", "HOOK_SKIPPED",
     "ALERT_START", "ALERT_SUCCESS", "ALERT_FAILURE", "LOGS_CAPTURED"}

STEP_EVENTS ==
    {"STEP_INPUT", "STEP_START", "STEP_OUTPUT", "STEP_FAILURE", "STEP_SUCCESS",
     "STEP_SKIPPED", "ASSET_MATERIALIZATION", "ASSET_OBSERVATION",
     "STEP_EXPECTATION_RESULT", "OBJECT_STORE_OPERATION", "HANDLED_OUTPUT",
     "LOADED_INPUT", "STEP_RESTARTED", "STEP_UP_FOR_RETRY"}

FAILURE_EVENTS == {"PIPELINE_FAILURE", "STEP_FAILURE", "PIPELINE_CANCELED"}

PIPELINE_EVENTS ==
    {"PIPELINE_ENQUEUED", "PIPELINE_DEQUEUED", "PIPELINE_STARTING", "PIPELINE_START",
     "PIPELINE_SUCCESS", "PIPELINE_FAILURE", "PIPELINE_CANCELING", "PIPELINE_CANCELED"}

HOOK_EVENTS == {"HOOK_COMPLETED", "HOOK_ERRORED", "HOOK_SKIPPED"}

ALERT_EVENTS == {"ALERT_START", "ALERT_SUCCESS", "ALERT_FAILURE"}

MARKER_EVENTS ==
    {"ENGINE_EVENT", "STEP_WORKER_STARTING", "STEP_WORKER_STARTED",
     "RESOURCE_INIT_STARTED", "RESOURCE_INIT_SUCCESS", "RESOURCE_INIT_FAILURE"}

\* Payloads.  error is "None" or the text of a SerializableErrorInfo.
Data(cls) == [cls |-> cls]

StepSuccessData(duration_ms) == [cls |-> "StepSuccessData", duration_ms |-> duration_ms]

EngineEventData(error, marker_end) ==
    [cls |-> "EngineEventData", metadata |-> EmptyMap, error |-> error,
     marker_start |-> NoneStr, marker_end |-> marker_end]

PipelineFailureData(error) == [cls |-> "PipelineFailureData", error |-> error]

PipelineCanceledData(error) == [cls |-> "PipelineCanceledData", error |-> error]

HookErroredData(error) == [cls |-> "HookErroredData", error |-> error]

LoadedInputData(input_name, manager_key) ==
    [cls |-> "LoadedInputData", input_name |-> input_name, manager_key |-> manager_key,
     upstream_output_name |-> NoneStr, upstream_step_key |-> NoneStr,
     metadata |-> EmptyMap]

HandledOutputData(output_name, manager_key) ==
    [cls |-> "HandledOutputData", output_name |-> output_name,
     manager_key |-> manager_key, metadata |-> EmptyMap]

\* check.inst_param(obj, name, ttype): None is no instance of any class
IsInst(obj, cls) == obj # NoneVal /\ obj.cls = cls

\* the class _validate_event_specific_data requires for an event type; "" when
\* it requires none
ValidatedClass(event_type) ==
    CASE event_type = "STEP_OUTPUT" -> "StepOutputData"
      [] event_type = "STEP_FAILURE" -> "StepFailureData"
      [] event_type = "STEP_SUCCESS" -> "StepSuccessData"
      [] event_type = "ASSET_MATERIALIZATION" -> "StepMaterializationData"
      [] event_type = "STEP_EXPECTATION_RESULT" -> "StepExpectationResultData"
      [] event_type = "STEP_INPUT" -> "StepInputData"
      [] event_type \in {"ENGINE_EVENT", "STEP_WORKER_STARTING", "STEP_WORKER_STARTED",
                         "RESOURCE_INIT_STARTED", "RESOURCE_INIT_SUCCESS",
                         "RESOURCE_INIT_FAILURE"} -> "EngineEventData"
      [] event_type = "HOOK_ERRORED" -> "HookErroredData"
      [] event_type = "ASSET_MATERIALIZATION_PLANNED" -> "AssetMaterializationPlannedData"
      [] OTHER -> ""

\* returns [err, value]
_validate_event_specific_data(event_type, event_specific_data) ==
    IF ValidatedClass(event_type) # ""
       /\ ~IsInst(event_specific_data, ValidatedClass(event_type))
    THEN [err |-> "CheckError", value |-> NoneVal]
    ELSE [err |-> "none", value |-> event_specific_data]

\* every type is taken for an expected one
_assert_type_any(expected_type, actual_type) == TRUE

\* _assert_type(method, expected_type, actual_type): the check.invariant
_assert_type(expected_type, actual_type) == actual_type \in expected_type

\* handles
NodeHandle(name) == [t |-> "node", name |-> name]

StepHandle(node_handle) == [t |-> "step", node_handle |-> node_handle]

to_key(step_handle) == step_handle.node_handle.name

\* the keyword arguments of DagsterEvent(...) at their defaults
NoArgs ==
    [step_handle |-> NoneVal, node_handle |-> NoneVal, step_kind_value |-> NoneStr,
     logging_tags |-> NoneVal, event_specific_data |-> NoneVal, message |-> NoneStr,
     pid |-> NoneVal, step_key |-> NoneStr]

\* the step key is stored as it is given
EventTuple_key_as_given(event_type_value, pipeline_name, kw, step_handle) ==
    [event_type_value |-> event_type_value,
     pipeline_name |-> pipeline_name,
     step_handle |-> step_handle,
     node_handle |-> kw.node_handle,
     step_kind_value |-> kw.step_kind_value,
     logging_tags |-> kw.logging_tags,
     event_specific_data |-> kw.event_specific_data,
     message |-> kw.message,
     pid |-> kw.pid,
     step_key |-> kw.step_key]

\* the namedtuple, once the handle and the key are settled
EventTuple(event_type_value, pipeline_name, kw, step_handle) ==
    [event_type_value |-> event_type_value,
     pipeline_name |-> pipeline_name,
     step_handle |-> step_handle,
     node_handle |-> kw.node_handle,
     step_kind_value |-> kw.step_kind_value,
     logging_tags |-> kw.logging_tags,
     event_specific_data |-> kw.event_specific_data,
     message |-> kw.message,
     pid |-> kw.pid,
     step_key |-> IF step_handle # NoneVal /\ kw.step_key = NoneStr
                  THEN to_key(step_handle) ELSE kw.step_key]

\* DagsterEvent.__new__: returns [err, event]
DagsterEvent_new(event_type_value, pipeline_name, kw) ==
    IF event_type_value \notin DagsterEventType
    THEN [err |-> "ValueError", event |-> NoneVal]
    ELSE IF _validate_event_specific_data(event_type_value, kw.event_specific_data).err # "none"
    THEN [err |-> "CheckError", event |-> NoneVal]
    ELSE [err |-> "none",
          event |-> EventTuple(event_type_value, pipeline_name, kw,
                               IF kw.node_handle # NoneVal /\ kw.step_handle = NoneVal
                               THEN StepHandle(kw.node_handle) ELSE kw.step_handle)]

\* self.event_type
event_type(event) == event.event_type_value

(***************************************************************************)
(* Logging.  A log manager is the sequence of the log_dagster_event calls  *)
(* it received.                                                            *)
(***************************************************************************)
LogCall(level, msg, dagster_event) ==
    [level |-> level, msg |-> msg, dagster_event |-> dagster_event]

MsgOr(event, default) == IF event.message \in {NoneStr, ""} THEN default ELSE event.message

LevelOfType(event) == IF event_type(event) \in FAILURE_EVENTS THEN "ERROR" ELSE "DEBUG"

log_step_event(step_context, event) ==
    <<LogCall(LevelOfType(event), MsgOr(event, "default step message"), event)>>

\* the log manager of the plan context is not called
log_pipeline_event_silent(pipeline_context, event) == << >>

log_pipeline_event(pipeline_context, event) ==
    <<LogCall(LevelOfType(event), MsgOr(event, "default pipeline message"), event)>>

\* a resource event levelled by its type, as the step and plan events are
log_resource_event_by_type(event) ==
    <<LogCall(LevelOfType(event), MsgOr(event, ""), event)>>

log_resource_event(event) ==
    <<LogCall(IF event.event_specific_data.error # NoneStr THEN "ERROR" ELSE "DEBUG",
              MsgOr(event, ""), event)>>

\* the contexts
StepContext == [pipeline_name |-> "p", node |-> "n1", kind |-> "COMPUTE"]

PlanContext == [pipeline_name |-> "p"]

\* a constructor leaves [err, event, log]: the error raised or the event
\* returned, and the calls the log manager received
Failed(err) == [err |-> err, event |-> NoneVal, log |-> << >>]

LoggedBy(out, how) ==
    IF out.err # "none" THEN Failed(out.err)
    ELSE [err |-> "none", event |-> out.event,
          log |-> CASE how = "step" -> log_step_event(StepContext, out.event)
                    [] how = "pipeline" -> log_pipeline_event(PlanContext, out.event)
                    [] how = "resource" -> log_resource_event(out.event)
                    [] how = "direct" ->
                         <<LogCall("DEBUG", "direct message", out.event)>>
                    [] OTHER -> << >>]

from_step(type, step_context, event_specific_data, message) ==
    IF _validate_event_specific_data(type, event_specific_data).err # "none"
    THEN Failed("CheckError")
    ELSE LoggedBy(DagsterEvent_new(type, step_context.pipeline_name,
                     [NoArgs EXCEPT !.step_handle = StepHandle(NodeHandle(step_context.node)),
                                    !.node_handle = NodeHandle(step_context.node),
                                    !.step_kind_value = step_context.kind,
                                    !.logging_tags = Lit("tags"),
                                    !.event_specific_data = event_specific_data,
                                    !.message = message,
                                    !.pid = Lit("pid")]),
                  "step")

from_pipeline(type, pipeline_context, message, event_specific_data, step_handle) ==
    IF _validate_event_specific_data(type, event_specific_data).err # "none"
    THEN Failed("CheckError")
    ELSE LoggedBy(DagsterEvent_new(type, pipeline_context.pipeline_name,
                     [NoArgs EXCEPT !.message = message,
                                    !.event_specific_data = event_specific_data,
                                    !.step_handle = step_handle,
                                    !.pid = Lit("pid")]),
                  "pipeline")

from_resource(type, pipeline_name, step_handle, message, event_specific_data) ==
    IF _validate_event_specific_data("ENGINE_EVENT", event_specific_data).err # "none"
    THEN Failed("CheckError")
    ELSE LoggedBy(DagsterEvent_new(type, pipeline_name,
                     [NoArgs EXCEPT !.message = message,
                                    !.event_specific_data = event_specific_data,
                                    !.step_handle = step_handle,
                                    !.pid = Lit("pid")]),
                  "resource")

\* the event of a step context built directly, as the hook constructors do
StepArgs(step_context) ==
    [NoArgs EXCEPT !.step_handle = StepHandle(NodeHandle(step_context.node)),
                   !.node_handle = NodeHandle(step_context.node),
                   !.step_kind_value = step_context.kind,
                   !.logging_tags = Lit("tags")]

\* pipeline_failure(pipeline_context_or_name, context_msg, error_info): with a
\* name in place of a context the event is returned as built
pipeline_failure(is_context, error_info) ==
    IF is_context
    THEN from_pipeline("PIPELINE_FAILURE", PlanContext, "run failed",
                       PipelineFailureData(error_info), NoneVal)
    ELSE LoggedBy(DagsterEvent_new("PIPELINE_FAILURE", "p",
                     [NoArgs EXCEPT !.event_specific_data = PipelineFailureData(error_info),
                                    !.message = "run failed",
                                    !.pid = Lit("pid")]),
                  "none")

engine_event(is_step_context, message, event_specific_data) ==
    IF is_step_context
    THEN from_step("ENGINE_EVENT", StepContext, event_specific_data, message)
    ELSE from_pipeline("ENGINE_EVENT", PlanContext, message, event_specific_data, NoneVal)

step_worker_started(step_key) ==
    LoggedBy(DagsterEvent_new("STEP_WORKER_STARTED", "p",
                [NoArgs EXCEPT !.message = "started",
                               !.event_specific_data =
                                   EngineEventData(NoneStr, "step_process_start"),
                               !.pid = Lit("pid"),
                               !.step_key = step_key]),
             "direct")

hook_completed ==
    LoggedBy(DagsterEvent_new("HOOK_COMPLETED", StepContext.pipeline_name,
                [StepArgs(StepContext) EXCEPT !.message = "hook finished"]), "direct")

hook_errored(error) ==
    LoggedBy(DagsterEvent_new("HOOK_ERRORED", StepContext.pipeline_name,
                [StepArgs(StepContext) EXCEPT
                    !.event_specific_data = HookErroredData(error)]), "direct")

hook_skipped ==
    LoggedBy(DagsterEvent_new("HOOK_SKIPPED", StepContext.pipeline_name,
                [StepArgs(StepContext) EXCEPT !.message = "hook skipped"]), "direct")

\* the constructors that only forward to from_step, with their event type
\* and the class of the payload they pass ("" for none)
StepConstructors ==
    [step_output_event |-> <<"STEP_OUTPUT", "StepOutputData">>,
     step_failure_event |-> <<"STEP_FAILURE", "StepFailureData">>,
     step_retry_event |-> <<"STEP_UP_FOR_RETRY", "StepRetryData">>,
     step_input_event |-> <<"STEP_INPUT", "StepInputData">>,
     step_start_event |-> <<"STEP_START", "">>,
     step_restarted_event |-> <<"STEP_RESTARTED", "">>,
     step_success_event |-> <<"STEP_SUCCESS", "StepSuccessData">>,
     step_skipped_event |-> <<"STEP_SKIPPED", "">>,
     asset_materialization |-> <<"ASSET_MATERIALIZATION", "StepMaterializationData">>,
     asset_observation |-> <<"ASSET_OBSERVATION", "AssetObservationData">>,
     step_expectation_result |-> <<"STEP_EXPECTATION_RESULT", "StepExpectationResultData">>,
     step_worker_starting |-> <<"STEP_WORKER_STARTING", "EngineEventData">>,
     object_store_operation |-> <<"OBJECT_STORE_OPERATION", "ObjectStoreOperationResultData">>,
     handled_output |-> <<"HANDLED_OUTPUT", "HandledOutputData">>,
     loaded_input |-> <<"LOADED_INPUT", "LoadedInputData">>,
     legacy_compute_log_step_event |-> <<"LOGS_CAPTURED", "ComputeLogsCaptureData">>]

\* ... to from_pipeline
PipelineConstructors ==
    [pipeline_start |-> <<"PIPELINE_START", "">>,
     pipeline_success |-> <<"PIPELINE_SUCCESS", "">>,
     pipeline_canceled |-> <<"PIPELINE_CANCELED", "PipelineCanceledData">>,
     capture_logs |-> <<"LOGS_CAPTURED", "ComputeLogsCaptureData">>]

\* ... to from_resource, always with an EngineEventData
ResourceConstructors ==
    [resource_init_start |-> "RESOURCE_INIT_STARTED",
     resource_init_success |-> "RESOURCE_INIT_SUCCESS",
     resource_init_failure |-> "RESOURCE_INIT_FAILURE",
     resource_teardown_failure |-> "ENGINE_EVENT"]

\* the payload a forwarding constructor passes
PayloadOf(cls, error) ==
    CASE cls = "" -> NoneVal
      [] cls = "StepSuccessData" -> StepSuccessData(1)
      [] cls = "EngineEventData" -> EngineEventData(error, NoneStr)
      [] cls = "PipelineCanceledData" -> PipelineCanceledData(error)
      [] cls = "LoadedInputData" -> LoadedInputData("in", "io_manager")
      [] cls = "HandledOutputData" -> HandledOutputData("out", "io_manager")
      [] cls \in {"StepFailureData", "StepRetryData"} -> [cls |-> cls, error |-> error]
      [] OTHER -> Data(cls)

Constructors ==
    (DOMAIN StepConstructors) \cup (DOMAIN PipelineConstructors)
    \cup (DOMAIN ResourceConstructors)
    \cup {"pipeline_failure", "engine_event", "step_worker_started",
          "hook_completed", "hook_errored", "hook_skipped"}

\* DagsterEvent.<name>(...): a.with_context says whether pipeline_failure is
\* given a plan context (or a name) and engine_event a step context (or a plan
\* context); a.error is the error info passed, a.data the payload of engine_event
Lifecycle(name, a) ==
    CASE name \in DOMAIN StepConstructors ->
           from_step(StepConstructors[name][1], StepContext,
                     PayloadOf(StepConstructors[name][2], a.error), "m")
      [] name \in DOMAIN PipelineConstructors ->
           from_pipeline(PipelineConstructors[name][1], PlanContext, "m",
                         PayloadOf(PipelineConstructors[name][2], a.error), NoneVal)
      [] name \in DOMAIN ResourceConstructors ->
           from_resource(ResourceConstructors[name], "p", NoneVal, "m",
                         EngineEventData(IF name \in {"resource_init_failure",
                                                      "resource_teardown_failure"}
                                         THEN a.error ELSE NoneStr, NoneStr))
      [] name = "pipeline_failure" -> pipeline_failure(a.with_context, a.error)
      [] name = "engine_event" -> engine_event(a.with_context, "m", a.data)
      [] name = "step_worker_started" -> step_worker_started("s1")
      [] name = "hook_completed" -> hook_completed
      [] name = "hook_errored" -> hook_errored(a.error)
      [] OTHER -> hook_skipped

(***************************************************************************)
(* Serialization.  A stored record is a dict: a function from its keys,    *)
(* with the class name under "__class__".                                  *)
(***************************************************************************)
\* d.get(k, default)
Get(d, k, default) == IF k \in DOMAIN d THEN d[k] ELSE default

\* storage_field_names of the whitelisted classes
StorageName(cls, field) ==
    CASE cls = "DagsterEvent" /\ field = "node_handle" -> "solid_handle"
      [] cls \in {"EngineEventData", "HandledOutputData", "LoadedInputData"}
         /\ field = "metadata" -> "metadata_entries"
      [] cls = "ComputeLogsCaptureData" /\ field = "file_key" -> "log_key"
      [] OTHER -> field

\* the field a stored key is loaded into
LoadedName(cls, fields, key) == CHOOSE f \in fields : StorageName(cls, f) = key

\* the classes the whitelist knows
PayloadClasses ==
    {"StepOutputData", "StepFailureData", "StepSuccessData", "StepMaterializationData",
     "StepExpectationResultData", "StepInputData", "EngineEventData", "HookErroredData",
     "AssetMaterializationPlannedData", "StepRetryData", "AssetObservationData",
     "PipelineFailureData", "PipelineCanceledData", "ObjectStoreOperationResultData",
     "HandledOutputData", "LoadedInputData", "ComputeLogsCaptureData"}

\* pack a payload: its fields under their storage names
PackPayload(data) ==
    IF data = NoneVal THEN NoneVal
    ELSE [k \in {"__class__"} \cup {StorageName(data.cls, f) : f \in (DOMAIN data) \ {"cls"}} |->
            IF k = "__class__" THEN data.cls
            ELSE data[LoadedName(data.cls, (DOMAIN data) \ {"cls"}, k)]]

\* unpack a payload: the class's constructor on the stored fields
UnpackPayload(d) ==
    CASE d = NoneVal -> NoneVal
      [] d["__class__"] = "EngineEventData" ->
           [EngineEventData(Get(d, "error", NoneStr), Get(d, "marker_end", NoneStr))
              EXCEPT !.metadata = Get(d, "metadata_entries", EmptyMap),
                     !.marker_start = Get(d, "marker_start", NoneStr)]
      [] d["__class__"] = "LoadedInputData" ->
           [LoadedInputData(d["input_name"], d["manager_key"])
              EXCEPT !.upstream_output_name = Get(d, "upstream_output_name", NoneStr),
                     !.upstream_step_key = Get(d, "upstream_step_key", NoneStr),
                     !.metadata = Get(d, "metadata_entries", EmptyMap)]
      [] d["__class__"] = "HandledOutputData" ->
           [HandledOutputData(d["output_name"], d["manager_key"])
              EXCEPT !.metadata = Get(d, "metadata_entries", EmptyMap)]
      [] OTHER ->
           [f \in {"cls"} \cup ((DOMAIN d) \ {"__class__"}) |->
              IF f = "cls" THEN d["__class__"] ELSE d[f]]

PackNode(node_handle) ==
    IF node_handle = NoneVal THEN NoneVal
    ELSE [__class__ |-> "NodeHandle", name |-> node_handle.name]

UnpackNode(d) == IF d = NoneVal THEN NoneVal ELSE NodeHandle(d.name)

PackStep(step_handle) ==
    IF step_handle = NoneVal THEN NoneVal
    ELSE [__class__ |-> "StepHandle", solid_handle |-> PackNode(step_handle.node_handle)]

UnpackStep(d) == IF d = NoneVal THEN NoneVal ELSE StepHandle(UnpackNode(d.solid_handle))

\* serialize an event: the stored record
pack(event) ==
    [k \in {"__class__"} \cup {StorageName("DagsterEvent", f) : f \in DOMAIN event} |->
       CASE k = "__class__" -> "DagsterEvent"
         [] k = "step_handle" -> PackStep(event.step_handle)
         [] k = "solid_handle" -> PackNode(event.node_handle)
         [] k = "event_specific_data" -> PackPayload(event.event_specific_data)
         [] OTHER -> event[k]]

\* _handle_back_compat: returns [err, event_type_value, event_specific_data]
BackCompat(event_type_value, event_specific_data) ==
    [err |-> "none", event_type_value |-> event_type_value,
     event_specific_data |-> event_specific_data]

\* no historical spelling is rewritten
_handle_back_compat_none(event_type_value, event_specific_data) ==
    BackCompat(event_type_value, event_specific_data)

\* the process events are relabelled but keep the payload they carried
_handle_back_compat_keep_payload(event_type_value, event_specific_data) ==
    BackCompat(IF event_type_value \in {"PIPELINE_PROCESS_START", "PIPELINE_PROCESS_STARTED",
                                        "PIPELINE_PROCESS_EXITED"}
               THEN "ENGINE_EVENT" ELSE event_type_value,
               event_specific_data)

\* every record is collapsed into an engine event
_handle_back_compat_collapse(event_type_value, event_specific_data) ==
    BackCompat("ENGINE_EVENT", [__class__ |-> "EngineEventData"])

\* engine events are rewritten as the old process events are
_handle_back_compat_engine_too(event_type_value, event_specific_data) ==
    BackCompat(IF event_type_value \in {"PIPELINE_PROCESS_START", "PIPELINE_PROCESS_STARTED",
                                        "PIPELINE_PROCESS_EXITED", "ENGINE_EVENT"}
               THEN "ENGINE_EVENT" ELSE event_type_value,
               IF event_type_value \in {"PIPELINE_PROCESS_START", "PIPELINE_PROCESS_STARTED",
                                        "PIPELINE_PROCESS_EXITED", "ENGINE_EVENT"}
               THEN [__class__ |-> "EngineEventData"] ELSE event_specific_data)

GET_ASSET == {"GET_ASSET", "{\"__enum__\": \"AssetStoreOperationType.GET_ASSET\"}"}

SET_ASSET == {"SET_ASSET", "{\"__enum__\": \"AssetStoreOperationType.SET_ASSET\"}"}

_handle_back_compat(event_type_value, event_specific_data) ==
    CASE event_type_value \in {"PIPELINE_PROCESS_START", "PIPELINE_PROCESS_STARTED",
                               "PIPELINE_PROCESS_EXITED"} ->
           BackCompat("ENGINE_EVENT", [__class__ |-> "EngineEventData"])
      [] event_type_value \in {"ASSET_STORE_OPERATION", "STEP_MATERIALIZATION",
                               "PIPELINE_INIT_FAILURE"}
         /\ event_specific_data = NoneVal ->
           [err |-> "AssertionError", event_type_value |-> event_type_value,
            event_specific_data |-> NoneVal]
      [] event_type_value = "ASSET_STORE_OPERATION"
         /\ "op" \notin DOMAIN event_specific_data ->
           [err |-> "KeyError", event_type_value |-> event_type_value,
            event_specific_data |-> NoneVal]
      [] event_type_value = "ASSET_STORE_OPERATION"
         /\ event_specific_data["op"] \in GET_ASSET ->
           BackCompat("LOADED_INPUT",
                      [__class__ |-> "LoadedInputData",
                       input_name |-> event_specific_data["output_name"],
                       manager_key |-> event_specific_data["asset_store_key"]])
      [] event_type_value = "ASSET_STORE_OPERATION"
         /\ event_specific_data["op"] \in SET_ASSET ->
           BackCompat("HANDLED_OUTPUT",
                      [__class__ |-> "HandledOutputData",
                       output_name |-> event_specific_data["output_name"],
                       manager_key |-> event_specific_data["asset_store_key"]])
      [] event_type_value = "STEP_MATERIALIZATION" ->
           BackCompat("ASSET_MATERIALIZATION", event_specific_data)
      [] event_type_value = "PIPELINE_INIT_FAILURE" ->
           BackCompat("PIPELINE_FAILURE",
                      [__class__ |-> "PipelineFailureData",
                       error |-> Get(event_specific_data, "error", NoneStr)])
      [] OTHER -> BackCompat(event_type_value, event_specific_data)

\* DagsterEventSerializer.before_unpack: returns [err, dict]
Rewritten(unpacked_dict, bc) ==
    [err |-> bc.err,
     dict |-> IF bc.err # "none" THEN unpacked_dict
              ELSE [k \in (DOMAIN unpacked_dict) \cup {"event_type_value", "event_specific_data"} |->
                      CASE k = "event_type_value" -> bc.event_type_value
                        [] k = "event_specific_data" -> bc.event_specific_data
                        [] OTHER -> unpacked_dict[k]]]

before_unpack(unpacked_dict) ==
    Rewritten(unpacked_dict,
              _handle_back_compat(unpacked_dict["event_type_value"],
                                  Get(unpacked_dict, "event_specific_data", NoneVal)))

\* the original message is dropped
CouldNotDeserialize_bare(event_type_value, orig_message) ==
    "Could not deserialize event of type " \o event_type_value
    \o ". This event may have been written by a newer version of Dagster."

\* the message of the event that stands for a record that could not be unpacked
CouldNotDeserialize(event_type_value, orig_message) ==
    "Could not deserialize event of type " \o event_type_value
    \o ". This event may have been written by a newer version of Dagster."
    \o (IF orig_message \in {NoneStr, ""} THEN ""
        ELSE " Original message: \"" \o orig_message \o "\"")

\* DagsterEventSerializer.handle_unpack_error: returns [err, event]
HandledWith(storage_dict, bc, exc) ==
    IF bc.err # "none" THEN [err |-> bc.err, event |-> NoneVal]
    ELSE IF "pipeline_name" \notin DOMAIN storage_dict
    THEN [err |-> "KeyError", event |-> NoneVal]
    ELSE DagsterEvent_new("ENGINE_EVENT", storage_dict["pipeline_name"],
            [NoArgs EXCEPT !.message =
                               CouldNotDeserialize(bc.event_type_value,
                                                   Get(storage_dict, "message", NoneStr)),
                           !.step_key = Get(storage_dict, "step_key", NoneStr),
                           !.event_specific_data = EngineEventData(exc, NoneStr)])

handle_unpack_error(exc, storage_dict) ==
    HandledWith(storage_dict,
                _handle_back_compat(storage_dict["event_type_value"],
                                    Get(storage_dict, "event_specific_data", NoneVal)),
                exc)

\* the serializer's unpack: before_unpack, the stored values unpacked into the
\* fields they are loaded into, the class constructed; whatever is raised on
\* the way is given to handle_unpack_error.  Returns [err, event, via]
Via(out, via) == [err |-> out.err, event |-> out.event, via |-> via]

Constructed(d, out) ==
    IF out.err = "none" THEN Via(out, "klass")
    ELSE Via(handle_unpack_error(out.err, d), "handle_unpack_error")

UnpackFields(d) ==
    IF Get(d, "event_specific_data", NoneVal) # NoneVal
       /\ d["event_specific_data"]["__class__"] \notin PayloadClasses
    THEN Via(handle_unpack_error("UnknownSerdesValue", d), "handle_unpack_error")
    ELSE Constructed(d,
            DagsterEvent_new(d["event_type_value"], d["pipeline_name"],
               [step_handle |-> UnpackStep(Get(d, "step_handle", NoneVal)),
                node_handle |-> UnpackNode(Get(d, "solid_handle", NoneVal)),
                step_kind_value |-> Get(d, "step_kind_value", NoneStr),
                logging_tags |-> Get(d, "logging_tags", NoneVal),
                event_specific_data |-> UnpackPayload(Get(d, "event_specific_data", NoneVal)),
                message |-> Get(d, "message", NoneStr),
                pid |-> Get(d, "pid", NoneVal),
                step_key |-> Get(d, "step_key", NoneStr)]))

Unpacked(storage_dict, before) ==
    IF before.err # "none"
    THEN Via(handle_unpack_error(before.err, storage_dict), "handle_unpack_error")
    ELSE UnpackFields(before.dict)

unpack(storage_dict) == Unpacked(storage_dict, before_unpack(storage_dict))

(***************************************************************************)
(* Accessors of an event.                                                  *)
(***************************************************************************)
\* the typed payload accessors, with the event types each one expects
PayloadAccessors ==
    [step_input_data |-> {"STEP_INPUT"},
     step_output_data |-> {"STEP_OUTPUT"},
     step_success_data |-> {"STEP_SUCCESS"},
     step_failure_data |-> {"STEP_FAILURE"},
     step_retry_data |-> {"STEP_UP_FOR_RETRY"},
     step_materialization_data |-> {"ASSET_MATERIALIZATION"},
     asset_observation_data |-> {"ASSET_OBSERVATION"},
     asset_materialization_planned_data |-> {"ASSET_MATERIALIZATION_PLANNED"},
     step_expectation_result_data |-> {"STEP_EXPECTATION_RESULT"},
     pipeline_failure_data |-> {"PIPELINE_FAILURE"},
     engine_event_data |-> {"ENGINE_EVENT", "RESOURCE_INIT_STARTED", "RESOURCE_INIT_SUCCESS",
                            "RESOURCE_INIT_FAILURE", "STEP_WORKER_STARTED",
                            "STEP_WORKER_STARTING"},
     hook_completed_data |-> {"HOOK_COMPLETED"},
     hook_errored_data |-> {"HOOK_ERRORED"},
     hook_skipped_data |-> {"HOOK_SKIPPED"},
     logs_captured_data |-> {"LOGS_CAPTURED"}]

\* event.<accessor>: returns [err, value]
ReadPayload(event, accessor) ==
    IF ~_assert_type(PayloadAccessors[accessor], event_type(event))
    THEN [err |-> "CheckError", value |-> NoneVal]
    ELSE [err |-> "none", value |-> event.event_specific_data]

\* an event that carries an error is a failure too
is_failure_by_error(event) ==
    \/ event_type(event) \in FAILURE_EVENTS
    \/ /\ event.event_specific_data # NoneVal
       /\ "error" \in DOMAIN event.event_specific_data
       /\ event.event_specific_data.error # NoneStr

is_failure(event) == event_type(event) \in FAILURE_EVENTS

\* the classification accessors
Classification(event) ==
    [is_step_event |-> event_type(event) \in STEP_EVENTS,
     is_hook_event |-> event_type(event) \in HOOK_EVENTS,
     is_alert_event |-> event_type(event) \in ALERT_EVENTS,
     is_step_success |-> event_type(event) = "STEP_SUCCESS",
     is_successful_output |-> event_type(event) = "STEP_OUTPUT",
     is_step_start |-> event_type(event) = "STEP_START",
     is_step_failure |-> event_type(event) = "STEP_FAILURE",
     is_resource_init_failure |-> event_type(event) = "RESOURCE_INIT_FAILURE",
     is_step_skipped |-> event_type(event) = "STEP_SKIPPED",
     is_step_up_for_retry |-> event_type(event) = "STEP_UP_FOR_RETRY",
     is_step_restarted |-> event_type(event) = "STEP_RESTARTED",
     is_pipeline_success |-> event_type(event) = "PIPELINE_SUCCESS",
     is_pipeline_failure |-> event_type(event) = "PIPELINE_FAILURE",
     is_run_failure |-> event_type(event) = "PIPELINE_FAILURE",
     is_failure |-> is_failure(event),
     is_pipeline_event |-> event_type(event) \in PIPELINE_EVENTS,
     is_engine_event |-> event_type(event) = "ENGINE_EVENT",
     is_handled_output |-> event_type(event) = "HANDLED_OUTPUT",
     is_loaded_input |-> event_type(event) = "LOADED_INPUT",
     is_step_materialization |-> event_type(event) = "ASSET_MATERIALIZATION",
     is_expectation_result |-> event_type(event) = "STEP_EXPECTATION_RESULT",
     is_asset_observation |-> event_type(event) = "ASSET_OBSERVATION",
     is_asset_materialization_planned |->
         event_type(event) = "ASSET_MATERIALIZATION_PLANNED"]

(***************************************************************************)
(* The events machine: an event is built, directly or by a lifecycle       *)
(* constructor; a built event is read, classified or serialized; a stored  *)
(* record, just serialized or historical, is deserialized.  Only result    *)
(* changes.                                                                *)
(***************************************************************************)
Errors == {NoneStr, "boom"}

\* the payloads events are built with
EventPayloads ==
    {NoneVal}
    \cup {Data(cls) : cls \in {"StepOutputData", "StepInputData", "StepMaterializationData",
                               "StepExpectationResultData", "AssetObservationData",
                               "AssetMaterializationPlannedData",
                               "ObjectStoreOperationResultData", "ComputeLogsCaptureData"}}
    \cup {StepSuccessData(d) : d \in {1, 2}}
    \cup {EngineEventData(e, NoneStr) : e \in Errors}
    \cup {PipelineFailureData(e) : e \in Errors}
    \cup {[cls |-> "StepFailureData", error |-> "boom"],
          [cls |-> "StepRetryData", error |-> "boom"],
          HookErroredData("boom"), PipelineCanceledData(NoneStr),
          LoadedInputData("in", "io_manager"), HandledOutputData("out", "io_manager")}

EventTypeValues == DagsterEventType \cup {"NOT_AN_EVENT"}

BuiltResult(by, args, out) ==
    [op |-> "built", by |-> by, args |-> args, err |-> out.err, event |-> out.event,
     log |-> out.log]

\* DagsterEvent(event_type_value, "p", step_handle=..., node_handle=...,
\*              event_specific_data=..., message=..., step_key=...)
ConstructEvent ==
    /\ Idle
    /\ \E event_type_value \in EventTypeValues, event_specific_data \in EventPayloads,
          step_handle \in {NoneVal, StepHandle(NodeHandle("n2"))},
          node_handle \in {NoneVal, NodeHandle("n1")}, message \in {NoneStr, "m"},
          step_key \in {NoneStr, "legacy"} :
         result' = BuiltResult("DagsterEvent",
                      [event_type_value |-> event_type_value,
                       event_specific_data |-> event_specific_data,
                       step_handle |-> step_handle, node_handle |-> node_handle,
                       step_key |-> step_key],
                      LoggedBy(DagsterEvent_new(event_type_value, "p",
                                  [NoArgs EXCEPT !.step_handle = step_handle,
                                                 !.node_handle = node_handle,
                                                 !.event_specific_data = event_specific_data,
                                                 !.message = message,
                                                 !.step_key = step_key]),
                               "none"))
    /\ UNCHANGED <<heap, env, env_at_init>>

\* DagsterEvent.from_step / from_pipeline / from_resource, called with any
\* event type and payload
CallFrom ==
    /\ Idle
    /\ \E from \in {"from_step", "from_pipeline", "from_resource"},
          type \in DagsterEventType, event_specific_data \in EventPayloads,
          message \in {NoneStr, "m"} :
         result' = BuiltResult(from,
                      [event_type_value |-> type, event_specific_data |-> event_specific_data],
                      CASE from = "from_step" ->
                             from_step(type, StepContext, event_specific_data, message)
                        [] from = "from_pipeline" ->
                             from_pipeline(type, PlanContext, message, event_specific_data,
                                           NoneVal)
                        [] OTHER ->
                             from_resource(type, "p", NoneVal, message, event_specific_data))
    /\ UNCHANGED <<heap, env, env_at_init>>

\* the constructors whose error argument is not optional
ErrorRequired ==
    {"step_failure_event", "step_retry_event", "hook_errored", "resource_init_failure",
     "resource_teardown_failure"}

\* DagsterEvent.<name>(...)
CallConstructor ==
    /\ Idle
    /\ \E name \in Constructors, with_context \in BOOLEAN, error \in Errors,
          data \in {NoneVal} \cup {EngineEventData(e, NoneStr) : e \in Errors} :
         /\ name \in ErrorRequired => error # NoneStr
         /\ result' = BuiltResult(name,
                         [with_context |-> with_context, error |-> error, data |-> data],
                         Lifecycle(name, [with_context |-> with_context, error |-> error,
                                          data |-> data]))
    /\ UNCHANGED <<heap, env, env_at_init>>

HasEvent == result.op = "built" /\ result.err = "none"

\* event.<accessor>
ReadAccessor ==
    /\ HasEvent
    /\ \E accessor \in DOMAIN PayloadAccessors :
         \E out \in {ReadPayload(result.event, accessor)} :
            result' = [op |-> "read", event |-> result.event, accessor |-> accessor,
                       err |-> out.err, value |-> out.value]
    /\ UNCHANGED <<heap, env, env_at_init>>

\* event.is_failure, event.is_step_event, ...
Classify ==
    /\ HasEvent
    /\ result' = [op |-> "classified", event |-> result.event,
                  answers |-> Classification(result.event)]
    /\ UNCHANGED <<heap, env, env_at_init>>

\* serialize the event
Serialize ==
    /\ HasEvent
    /\ result' = [op |-> "packed", event |-> result.event, dict |-> pack(result.event)]
    /\ UNCHANGED <<heap, env, env_at_init>>

UnpackedResult(original, dict, out) ==
    [op |-> "unpacked", original |-> original, dict |-> dict, err |-> out.err,
     event |-> out.event, via |-> out.via]

\* deserialize the record just stored
Deserialize ==
    /\ result.op = "packed"
    /\ result' = UnpackedResult(result.event, result.dict, unpack(result.dict))
    /\ UNCHANGED <<heap, env, env_at_init>>

\* a stored record: the keys of the values that are None are left out
StoredDict(event_type_value, event_specific_data, message, step_key) ==
    [k \in {"__class__", "event_type_value", "pipeline_name"}
           \cup (IF event_specific_data = NoneVal THEN {} ELSE {"event_specific_data"})
           \cup (IF message = NoneStr THEN {} ELSE {"message"})
           \cup (IF step_key = NoneStr THEN {} ELSE {"step_key"}) |->
       CASE k = "__class__" -> "DagsterEvent"
         [] k = "event_type_value" -> event_type_value
         [] k = "pipeline_name" -> "p"
         [] k = "event_specific_data" -> event_specific_data
         [] k = "message" -> message
         [] OTHER -> step_key]

AssetStoreOperationData(op, output_name, asset_store_key) ==
    [__class__ |-> "AssetStoreOperationData", op |-> op, step_key |-> "s1",
     output_name |-> output_name, asset_store_key |-> asset_store_key]

\* the payloads of the records earlier and later versions stored
StoredPayloads(event_type_value) ==
    CASE event_type_value \in {"PIPELINE_PROCESS_START", "PIPELINE_PROCESS_STARTED",
                               "PIPELINE_PROCESS_EXITED"} ->
           {NoneVal, [__class__ |-> "PipelineProcessStartedData", process_id |-> "1"],
            [__class__ |-> "EngineEventData", error |-> "boom"]}
      [] event_type_value = "ASSET_STORE_OPERATION" ->
           {NoneVal}
           \cup {AssetStoreOperationData(op, output_name, asset_store_key) :
                   op \in GET_ASSET \cup SET_ASSET, output_name \in {"result", "out2"},
                   asset_store_key \in {"asset_store", "io_manager"}}
      [] event_type_value = "STEP_MATERIALIZATION" ->
           {NoneVal, [__class__ |-> "StepMaterializationData"]}
      [] event_type_value = "PIPELINE_INIT_FAILURE" ->
           {NoneVal, [__class__ |-> "PipelineInitFailureData", error |-> "boom"]}
      [] event_type_value = "STEP_SUCCESS" ->
           {[__class__ |-> "StepSuccessData", duration_ms |-> 1],
            [__class__ |-> "EngineEventData"]}
      [] OTHER -> {NoneVal, [__class__ |-> "NewEventData"],
                   [__class__ |-> "EngineEventData"]}

StoredTypes ==
    {"PIPELINE_PROCESS_START", "PIPELINE_PROCESS_STARTED", "PIPELINE_PROCESS_EXITED",
     "ASSET_STORE_OPERATION", "STEP_MATERIALIZATION", "PIPELINE_INIT_FAILURE",
     "STEP_SUCCESS", "NEW_EVENT_TYPE"}

\* deserialize a record of the event log
ReadStored ==
    /\ Idle
    /\ \E event_type_value \in StoredTypes, message \in {NoneStr, "", "hello"},
          step_key \in {NoneStr, "s1"} :
         \E event_specific_data \in StoredPayloads(event_type_value) :
            \E dict \in {StoredDict(event_type_value, event_specific_data, message, step_key)} :
               result' = UnpackedResult(NoneVal, dict, unpack(dict))
    /\ UNCHANGED <<heap, env, env_at_init>>

\* the payloads _handle_back_compat is given: those of stored records, a
\* payload of the current form, and for the asset store operation one of
\* another op and one without op
RewrittenPayloads(event_type_value) ==
    StoredPayloads(event_type_value)
        \cup {[__class__ |-> "EngineEventData", error |-> "boom"]}
        \cup (IF event_type_value = "ASSET_STORE_OPERATION"
              THEN {AssetStoreOperationData("OTHER_OP", "result", "io_manager"),
                    [__class__ |-> "StepOutputData"]}
              ELSE {})

\* _handle_back_compat(event_type_value, event_specific_data), and once more on
\* what it returned
HandleBackCompat ==
    /\ Idle
    /\ \E event_type_value \in StoredTypes \cup DagsterEventType :
       \E event_specific_data \in RewrittenPayloads(event_type_value) :
       \E out \in {_handle_back_compat(event_type_value, event_specific_data)} :
          result' = [op |-> "back_compat", event_type_value |-> event_type_value,
                     event_specific_data |-> event_specific_data, out |-> out,
                     again |-> IF out.err = "none"
                               THEN _handle_back_compat(out.event_type_value,
                                                        out.event_specific_data)
                               ELSE out]
    /\ UNCHANGED <<heap, env, env_at_init>>

EventNext ==
    \/ HandleBackCompat
    \/ ConstructEvent
    \/ CallFrom
    \/ CallConstructor
    \/ ReadAccessor
    \/ Classify
    \/ Serialize
    \/ Deserialize
    \/ ReadStored
    \/ Return

EventSpec == Init /\ [][EventNext]_vars

(***************************************************************************)
(* Claims about events, checked under EventSpec.                           *)
(***************************************************************************)
\* the payload class of an event type: the class its typed accessor casts to
\* and its constructor passes
CorrespondingClass ==
    [t \in MARKER_EVENTS |-> "EngineEventData"]
    @@ [STEP_OUTPUT |-> "StepOutputData",
        STEP_FAILURE |-> "StepFailureData",
        STEP_SUCCESS |-> "StepSuccessData",
        STEP_INPUT |-> "StepInputData",
        STEP_UP_FOR_RETRY |-> "StepRetryData",
        ASSET_MATERIALIZATION |-> "StepMaterializationData",
        ASSET_MATERIALIZATION_PLANNED |-> "AssetMaterializationPlannedData",
        ASSET_OBSERVATION |-> "AssetObservationData",
        STEP_EXPECTATION_RESULT |-> "StepExpectationResultData",
        PIPELINE_FAILURE |-> "PipelineFailureData",
        PIPELINE_CANCELED |-> "PipelineCanceledData",
        OBJECT_STORE_OPERATION |-> "ObjectStoreOperationResultData",
        LOADED_INPUT |-> "LoadedInputData",
        HANDLED_OUTPUT |-> "HandledOutputData",
        HOOK_ERRORED |-> "HookErroredData",
        LOGS_CAPTURED |-> "ComputeLogsCaptureData"]

\* C11: no event is created, by DagsterEvent(...) or by any constructor, that
\* holds a payload of a class other than the one its event type corresponds to.
\* The code checks the payload of fourteen event types only: for the others
\* (STEP_UP_FOR_RETRY, ASSET_OBSERVATION, PIPELINE_FAILURE, LOADED_INPUT, ...)
\* any payload is accepted, and from_resource checks against ENGINE_EVENT
\* whatever the event type.
C11_NoMismatchedEventCreated ==
    (HasEvent /\ result.event.event_type_value \in DOMAIN CorrespondingClass
           /\ result.event.event_specific_data # NoneVal)
    => result.event.event_specific_data.cls
         = CorrespondingClass[result.event.event_type_value]

\* C12: reading a typed payload accessor of an event whose event_type is not
\* one of the types the accessor expects fails with an invariant violation;
\* when it is, the read gives the event's event_specific_data.
C12_AccessorChecksEventType ==
    result.op = "read" =>
       IF result.event.event_type_value \in PayloadAccessors[result.accessor]
       THEN result.err = "none" /\ result.value = result.event.event_specific_data
       ELSE result.err = "CheckError" /\ result.value = NoneVal

\* step_success_data was read from a STEP_FAILURE event, and failed
C12_WrongAccessorFailed ==
    /\ result.op = "read"
    /\ result.accessor = "step_success_data"
    /\ result.event.event_type_value = "STEP_FAILURE"
    /\ result.event.event_specific_data.cls = "StepFailureData"
    /\ result.err = "CheckError"

ByConstructor ==
    /\ HasEvent
    /\ result.by \in Constructors \cup {"from_step", "from_pipeline", "from_resource"}

LoggedOnce == Len(result.log) = 1 /\ result.log[1].dagster_event = result.event

\* C13 as stated: every lifecycle constructor, on every one of its code paths,
\* logs the event it built exactly once before it returns it.
\* pipeline_failure given a pipeline name in place of a plan context (the
\* failure happened before a context was built) returns the event unlogged.
C13_EveryConstructorLogsOnce == ByConstructor => LoggedOnce

\* C13 amended: every lifecycle constructor logs the event it built exactly
\* once before it returns it, except pipeline_failure called with a pipeline
\* name, which has no context to log through and logs nothing.
C13_ConstructorsLogOnceGivenContext ==
    ByConstructor =>
       IF result.by = "pipeline_failure" /\ ~result.args.with_context
       THEN result.log = << >>
       ELSE LoggedOnce

\* pipeline_failure was given a plan context and logged its event, at ERROR
C13_PipelineFailureLogged ==
    /\ ByConstructor
    /\ result.by = "pipeline_failure"
    /\ result.args.with_context
    /\ LoggedOnce
    /\ result.log[1].level = "ERROR"

\* the stored record named an event type that no rewrite and no member of
\* DagsterEventType accounts for
UnrecognizedStored ==
    /\ result.op = "unpacked"
    /\ result.dict["event_type_value"] \notin DagsterEventType
    /\ result.dict["event_type_value"]
         \notin {"PIPELINE_PROCESS_START", "PIPELINE_PROCESS_STARTED",
                 "PIPELINE_PROCESS_EXITED", "STEP_MATERIALIZATION", "PIPELINE_INIT_FAILURE"}

StoredMessage == Get(result.dict, "message", NoneStr)

\* C14: deserializing a stored event of an unrecognized type does not raise; it
\* yields an ENGINE_EVENT with the stored pipeline name and step key, an
\* EngineEventData that carries an error, and a message that names the original
\* type and includes the original message when one was stored.
C14_UnrecognizedBecomesEngineEvent ==
    UnrecognizedStored =>
       /\ result.err = "none"
       /\ result.event.event_type_value = "ENGINE_EVENT"
       /\ result.event.pipeline_name = result.dict["pipeline_name"]
       /\ result.event.step_key = Get(result.dict, "step_key", NoneStr)
       /\ result.event.event_specific_data.cls = "EngineEventData"
       /\ result.event.event_specific_data.error # NoneStr
       /\ result.event.message =
            "Could not deserialize event of type " \o result.dict["event_type_value"]
            \o ". This event may have been written by a newer version of Dagster."
            \o (IF StoredMessage \in {NoneStr, ""} THEN ""
                ELSE " Original message: \"" \o StoredMessage \o "\"")

\* a record of a newer event type, stored with a message and a step key, was
\* deserialized
C14_NewerRecordRead ==
    /\ UnrecognizedStored
    /\ StoredMessage = "hello"
    /\ result.dict["step_key"] = "s1"
    /\ result.via = "handle_unpack_error"
    /\ result.event.event_type_value = "ENGINE_EVENT"

\* a stored ASSET_STORE_OPERATION record, as earlier versions wrote it
AssetStoreRecord ==
    /\ result.op = "unpacked"
    /\ result.dict["event_type_value"] = "ASSET_STORE_OPERATION"
    /\ Get(result.dict, "event_specific_data", NoneVal) # NoneVal
    /\ result.dict["event_specific_data"]["__class__"] = "AssetStoreOperationData"

OldData == result.dict["event_specific_data"]

NewRecord == before_unpack(result.dict).dict

\* C15: the rewrite of a stored ASSET_STORE_OPERATION record always yields a
\* LOADED_INPUT or a HANDLED_OUTPUT record: op GET_ASSET gives LOADED_INPUT with
\* a LoadedInputData whose input_name is the old output_name and whose
\* manager_key is the old asset_store_key; op SET_ASSET gives HANDLED_OUTPUT
\* with a HandledOutputData of the old output_name and asset_store_key.  The
\* event deserialized from the record carries the same.
C15_AssetStoreOperationRewritten ==
    AssetStoreRecord =>
       /\ before_unpack(result.dict).err = "none"
       /\ result.err = "none" /\ result.via = "klass"
       /\ NewRecord["event_specific_data"]["manager_key"] = OldData["asset_store_key"]
       /\ result.event.event_specific_data.manager_key = OldData["asset_store_key"]
       /\ IF OldData["op"] \in {"GET_ASSET",
                                "{\"__enum__\": \"AssetStoreOperationType.GET_ASSET\"}"}
          THEN /\ NewRecord["event_type_value"] = "LOADED_INPUT"
               /\ NewRecord["event_specific_data"]["__class__"] = "LoadedInputData"
               /\ NewRecord["event_specific_data"]["input_name"] = OldData["output_name"]
               /\ result.event.event_type_value = "LOADED_INPUT"
               /\ result.event.event_specific_data.cls = "LoadedInputData"
               /\ result.event.event_specific_data.input_name = OldData["output_name"]
          ELSE /\ NewRecord["event_type_value"] = "HANDLED_OUTPUT"
               /\ NewRecord["event_specific_data"]["__class__"] = "HandledOutputData"
               /\ NewRecord["event_specific_data"]["output_name"] = OldData["output_name"]
               /\ result.event.event_type_value = "HANDLED_OUTPUT"
               /\ result.event.event_specific_data.cls = "HandledOutputData"
               /\ result.event.event_specific_data.output_name = OldData["output_name"]

\* a record whose op is the stored form of the enum member GET_ASSET was read
\* as a LOADED_INPUT event
C15_GetAssetRecordRead ==
    /\ AssetStoreRecord
    /\ OldData["op"] = "{\"__enum__\": \"AssetStoreOperationType.GET_ASSET\"}"
    /\ OldData["output_name"] = "out2"
    /\ result.event.event_type_value = "LOADED_INPUT"
    /\ result.event.event_specific_data.input_name = "out2"

\* a stored record of one of the process events of earlier versions
ProcessRecord ==
    /\ result.op = "unpacked"
    /\ result.dict["event_type_value"] \in {"PIPELINE_PROCESS_START",
                                            "PIPELINE_PROCESS_STARTED",
                                            "PIPELINE_PROCESS_EXITED"}

\* C16: on deserialization a PIPELINE_PROCESS_START, PIPELINE_PROCESS_STARTED
\* or PIPELINE_PROCESS_EXITED record is rewritten, before the event is
\* constructed, to an ENGINE_EVENT record with an empty EngineEventData,
\* whatever payload it carried; the rewritten record passes the check of the
\* payload at construction.
C16_ProcessEventsBecomeEngineEvents ==
    ProcessRecord =>
       /\ NewRecord["event_type_value"] = "ENGINE_EVENT"
       /\ NewRecord["event_specific_data"] = [__class__ |-> "EngineEventData"]
       /\ \A k \in (DOMAIN result.dict) \ {"event_type_value", "event_specific_data"} :
             NewRecord[k] = result.dict[k]
       /\ result.err = "none" /\ result.via = "klass"
       /\ result.event.event_type_value = "ENGINE_EVENT"
       /\ result.event.event_specific_data
            = [cls |-> "EngineEventData", metadata |-> << >>, error |-> NoneStr,
               marker_start |-> NoneStr, marker_end |-> NoneStr]
       /\ result.event.message = Get(result.dict, "message", NoneStr)

\* a PIPELINE_PROCESS_STARTED record that carried the payload of its time was
\* read as an engine event
C16_ProcessStartedRecordRead ==
    /\ ProcessRecord
    /\ result.dict["event_type_value"] = "PIPELINE_PROCESS_STARTED"
    /\ Get(result.dict, "event_specific_data", NoneVal) # NoneVal
    /\ result.dict["event_specific_data"]["__class__"] = "PipelineProcessStartedData"
    /\ result.event.event_type_value = "ENGINE_EVENT"

\* the events of the same event type as the classified one, with any payload,
\* message and handles
SameTypeEvents ==
    {[result.event EXCEPT !.event_specific_data = p, !.message = m, !.node_handle = n,
                          !.step_handle = h, !.step_key = k] :
       p \in EventPayloads, m \in {NoneStr, "m"}, n \in {NoneVal, NodeHandle("n1")},
       h \in {NoneVal, StepHandle(NodeHandle("n1"))}, k \in {NoneStr, "legacy"}}

\* C17: every classification accessor is a function of event_type alone: an
\* event of the same type gets the same answers whatever its payload, message
\* and handles; is_failure holds exactly for RUN_FAILURE, STEP_FAILURE and
\* RUN_CANCELED (stored as PIPELINE_FAILURE and PIPELINE_CANCELED).
C17_ClassificationByTypeAlone ==
    result.op = "classified" =>
       /\ \A other \in SameTypeEvents : Classification(other) = result.answers
       /\ result.answers.is_failure
            <=> result.event.event_type_value
                  \in {"PIPELINE_FAILURE", "STEP_FAILURE", "PIPELINE_CANCELED"}

\* a RESOURCE_INIT_FAILURE event that carries an error was classified: it is an
\* engine-data event of its own type, and no failure event
C17_ResourceInitFailureClassified ==
    /\ result.op = "classified"
    /\ result.event.event_type_value = "RESOURCE_INIT_FAILURE"
    /\ result.event.event_specific_data.error = "boom"
    /\ result.answers.is_resource_init_failure
    /\ ~result.answers.is_failure

\* a STEP_SUCCESS event was serialized and the stored record deserialized
StepSuccessRoundTrip ==
    /\ result.op = "unpacked"
    /\ result.original # NoneVal
    /\ result.original.event_type_value = "STEP_SUCCESS"

\* C18: serializing a STEP_SUCCESS event and deserializing the result yields an
\* event with the same event_type, the same step handle and step key, and an
\* equal StepSuccessData; the back-compat rewrite applied on unpack leaves the
\* stored record as it is.
C18_StepSuccessRoundTrip ==
    StepSuccessRoundTrip =>
       /\ result.dict = pack(result.original)
       /\ before_unpack(result.dict) = [err |-> "none", dict |-> result.dict]
       /\ result.err = "none" /\ result.via = "klass"
       /\ result.event.event_type_value = "STEP_SUCCESS"
       /\ result.event.step_handle = result.original.step_handle
       /\ result.event.step_key = result.original.step_key
       /\ result.event.event_specific_data.cls = "StepSuccessData"
       /\ result.event.event_specific_data = result.original.event_specific_data

\* a STEP_SUCCESS event of a step, with its handle and a duration, went
\* through the round trip
C18_StepEventWentRound ==
    /\ StepSuccessRoundTrip
    /\ result.original.step_handle = StepHandle(NodeHandle("n1"))
    /\ result.original.step_key = "n1"
    /\ result.original.event_specific_data = StepSuccessData(1)
    /\ result.dict["solid_handle"] = [__class__ |-> "NodeHandle", name |-> "n1"]
    /\ result.dict["event_specific_data"]["__class__"] = "StepSuccessData"
    /\ result.err = "none"

\* the ways an event reaches the log manager of a context
ThroughStepOrPlan ==
    {"from_step", "from_pipeline"} \cup DOMAIN StepConstructors
        \cup DOMAIN PipelineConstructors

AsResourceEvent == {"from_resource"} \cup DOMAIN ResourceConstructors

\* the event types named RUN_FAILURE, STEP_FAILURE and RUN_CANCELED
NamedFailureTypes == {"PIPELINE_FAILURE", "STEP_FAILURE", "PIPELINE_CANCELED"}

Logged == HasEvent /\ Len(result.log) = 1

LevelIs(cond) == result.log[1].level = IF cond THEN "ERROR" ELSE "DEBUG"

C27_StepHandleImpliesStepKey ==
    /\ HasEvent => (result.event.step_handle # NoneVal => result.event.step_key # NoneStr)
    /\ (HasEvent /\ result.by = "DagsterEvent") =>
          /\ (result.args.node_handle # NoneVal /\ result.args.step_handle = NoneVal) =>
                result.event.step_handle = [t |-> "step", node_handle |-> result.args.node_handle]
          /\ result.args.step_handle # NoneVal =>
                result.event.step_handle = result.args.step_handle
          /\ (result.args.node_handle = NoneVal /\ result.args.step_handle = NoneVal) =>
                result.event.step_handle = NoneVal
          /\ result.event.node_handle = result.args.node_handle
          /\ result.args.step_key # NoneStr => result.event.step_key = result.args.step_key
          /\ (result.args.step_key = NoneStr /\ result.event.step_handle # NoneVal) =>
                result.event.step_key = result.event.step_handle.node_handle.name
          /\ (result.args.step_key = NoneStr /\ result.event.step_handle = NoneVal) =>
                result.event.step_key = NoneStr

\* an event was built with the node handle n1, no step handle and the step key
\* legacy: it has the step handle of n1 and keeps the key legacy
C27_LegacyKeyKept ==
    /\ HasEvent
    /\ result.by = "DagsterEvent"
    /\ result.args.node_handle = NodeHandle("n1")
    /\ result.args.step_handle = NoneVal
    /\ result.args.step_key = "legacy"
    /\ result.event.step_handle = StepHandle(NodeHandle("n1"))
    /\ result.event.step_key = "legacy"
    /\ to_key(result.event.step_handle) = "n1"

\* C28: the back-compat rewrite is idempotent: applied to its own output it
\* returns that output unchanged, for every event type and payload on which it
\* returns; and it is the identity on every record whose event type is a
\* current type other than ASSET_STORE_OPERATION.
C28_BackCompatIdempotent ==
    result.op = "back_compat" =>
       /\ result.out.err = "none" => result.again = result.out
       /\ (result.event_type_value \in DagsterEventType
              /\ result.event_type_value # "ASSET_STORE_OPERATION") =>
             /\ result.out.err = "none"
             /\ result.out.event_type_value = result.event_type_value
             /\ result.out.event_specific_data = result.event_specific_data

\* an asset store operation of a GET_ASSET was rewritten to a loaded input,
\* and rewriting the loaded input left it as it was
C28_RewrittenOnceOnly ==
    /\ result.op = "back_compat"
    /\ result.event_type_value = "ASSET_STORE_OPERATION"
    /\ result.event_specific_data # NoneVal
    /\ result.out.err = "none"
    /\ result.out.event_type_value = "LOADED_INPUT"
    /\ result.out.event_specific_data["__class__"] = "LoadedInputData"
    /\ result.again = result.out

(***************************************************************************)
INTERNAL_MARKER == "__internal__"

\* the marker anywhere in the name
_is_field_internal_anywhere(name) == INTERNAL_MARKER \in Range(name)

\* name.endswith(INTERNAL_MARKER)
_is_field_internal(name) == Len(name) > 0 /\ name[Len(name)] = INTERNAL_MARKER

\* a Config instance: Config subclasses forbid extra fields, PermissiveConfig
\* subclasses allow them
ConfigObject(permissive) ==
    [kind |-> "config", cls |-> "MyConfig", permissive |-> permissive,
     fields |-> [a |-> Lit("x")]]

\* the instances that are pydantic models
IsModel(obj) == obj.kind \in {"factory", "partial", "config"}

\* __fields__ of the instance's class
DeclaredFields(obj) ==
    CASE obj.kind = "factory" -> Range(ClassFields(obj.cls))
      [] obj.kind = "partial" -> {"data", "resource_cls"}
      [] OTHER -> DOMAIN obj.fields

\* pydantic's BaseModel.__setattr__ on a frozen model: the error it raises
BaseModel_setattr(obj, name) ==
    IF ~(obj.kind = "config" /\ obj.permissive)
       /\ ~(Len(name) = 1 /\ name[1] \in DeclaredFields(obj))
    THEN [exc |-> "ValueError", text |-> "object has no field"]
    ELSE [exc |-> "TypeError",
          text |-> "is immutable and does not support item assignment"]

\* object.__setattr__(self, name, value)
object_setattr(obj, name, value) ==
    [k \in (DOMAIN obj) \cup {"internal"} |->
       IF k = "internal"
       THEN Merge(Get(obj, "internal", EmptyMap), [n \in {name} |-> value])
       ELSE obj[k]]

\* what the except clause raises for the error of the base class
Reraised(obj, e) ==
    CASE e.text = "is immutable and does not support item assignment" ->
           [err |-> "DagsterInvalidInvocationError",
            message |-> IF obj.kind = "factory"
                        THEN "is a Pythonic resource and does not support item assignment"
                        ELSE "is a Pythonic config class and does not support item assignment",
            obj |-> obj]
      [] e.text = "object has no field" ->
           [err |-> "DagsterInvalidInvocationError",
            message |-> IF obj.kind = "factory"
                        THEN "is a Pythonic resource and does not support manipulating undeclared attribute"
                        ELSE "is a Pythonic config class and does not support manipulating undeclared attribute",
            obj |-> obj]
      [] OTHER -> [err |-> e.exc, message |-> e.text, obj |-> obj]

\* MakeConfigCacheable.__setattr__: returns [err, message, obj]; obj is the
\* instance afterwards
__setattr__(obj, name, value) ==
    IF _is_field_internal(name)
    THEN [err |-> "none", message |-> "", obj |-> object_setattr(obj, name, value)]
    ELSE Reraised(obj, BaseModel_setattr(obj, name))

\* the names assigned to: a declared field, an undeclared name, an internal
\* name, and an undeclared name that only begins with the marker
AttrNames(obj) ==
    {<<f>> : f \in DeclaredFields(obj)}
    \cup {<<"client">>, <<"cache", INTERNAL_MARKER>>, <<INTERNAL_MARKER, "x">>}

SetAttrResult(target, name, before, out) ==
    [op |-> "setattr", target |-> target, name |-> name, before |-> before,
     err |-> out.err, message |-> out.message, after |-> out.obj]

\* obj.<name> = value, on the resource declared last
SetAttr ==
    /\ Idle
    /\ Top > 0
    /\ IsModel(heap[Top])
    /\ \E name \in AttrNames(heap[Top]) :
         \E out \in {__setattr__(heap[Top], name, Lit("v"))} :
            /\ heap' = [heap EXCEPT ![Top] = out.obj]
            /\ result' = SetAttrResult(Top, name, heap[Top], out)
    /\ UNCHANGED <<env, env_at_init>>

\* config.<name> = value, on an instance of a Config class
SetConfigAttr ==
    /\ Idle
    /\ \E permissive \in BOOLEAN :
         \E name \in AttrNames(ConfigObject(permissive)) :
            result' = SetAttrResult(0, name, ConfigObject(permissive),
                                    __setattr__(ConfigObject(permissive), name, Lit("v")))
    /\ UNCHANGED <<heap, env, env_at_init>>

(***************************************************************************)
(* Additional defaults applied to a schema field.                          *)
(***************************************************************************)
\* the fields of a config class: required, optional, or with a default
FieldKinds ==
    {ScalarField("StringSource"), OptionalField("StringSource"),
     DefaultField("StringSource", Lit("d"))}

\* the schema fields of config classes with the fields a and b
SchemaFields ==
    {[ShapeField([a |-> fa, b |-> fb]) EXCEPT !.description = d] :
        fa \in FieldKinds, fb \in FieldKinds, d \in {NoneStr, "doc"}}

\* the values given for a field: a string, or a number where a string is due
GivenValues == {Lit("x"), [t |-> "num", v |-> 1]}

\* the additional defaults: values for some of a and b, and for a field c the
\* class does not have
AdditionalDefaults ==
    {v \in UNION {[D -> GivenValues] : D \in SUBSET {"a", "b", "c"}} :
        "c" \in DOMAIN v => v["c"] = Lit("x")}

\* _apply_defaults_to_schema_field(field, additional_default_values)
ApplyDefaults ==
    /\ Idle
    /\ \E field \in SchemaFields, additional_default_values \in AdditionalDefaults :
         \E out \in {_apply_defaults_to_schema_field(field, additional_default_values)} :
            result' = [op |-> "apply_defaults", field |-> field,
                       additional |-> additional_default_values,
                       err |-> out.err, new |-> out.field]
    /\ UNCHANGED <<heap, env, env_at_init>>

\* the schema machine: defaults are applied to fields
SchemaNext ==
    \/ ApplyDefaults
    \/ Return

SchemaSpec == Init /\ [][SchemaNext]_vars

\* the attributes machine: instances are declared and assigned to
AttrNext ==
    \/ DeclareResource
    \/ ConfigureAtLaunch
    \/ DeclarePlain
    \/ SetAttr
    \/ SetConfigAttr
    \/ Return

AttrSpec == Init /\ [][AttrNext]_vars

(***************************************************************************)
(* Claims about instances, checked under AttrSpec, and about schema        *)
(* fields, checked under SchemaSpec.                                       *)
(***************************************************************************)
\* C19: assigning to an attribute of a Config or resource instance after
\* construction fails with DagsterInvalidInvocationError, for a declared field
\* and for an undeclared attribute alike, and leaves the instance as it was;
\* only a name that ends with the internal marker can be set.
C19_OnlyInternalNamesCanBeSet ==
    result.op = "setattr" =>
       IF result.name[Len(result.name)] = "__internal__"
       THEN /\ result.err = "none"
            /\ result.after.internal[result.name] = Lit("v")
       ELSE /\ result.err = "DagsterInvalidInvocationError"
            /\ result.after = result.before
            /\ result.target > 0 => heap[result.target] = result.before

\* a declared field of a resource was assigned to, and the assignment failed
C19_FieldAssignmentFailed ==
    /\ result.op = "setattr"
    /\ result.target > 0
    /\ result.before.kind = "factory"
    /\ result.name = <<"a">>
    /\ result.err = "DagsterInvalidInvocationError"
    /\ result.message = "is a Pythonic resource and does not support item assignment"

\* C20: applying additional defaults to a schema field yields a new field, not
\* required, with the same config type and description; its default is the
\* additional defaults as given when the field had no default, and otherwise
\* one merged default in which the additional values win and the existing
\* defaults fill the keys they do not specify.  Additional defaults that fail
\* validation against the field's type raise a config error and yield no
\* field.
C20_AdditionalDefaultsApplied ==
    result.op = "apply_defaults" =>
       IF ~validate_config(result.field.config_type, result.additional)
       THEN result.err = "DagsterInvalidConfigError" /\ result.new = NoneVal
       ELSE /\ result.err = "none"
            /\ ~result.new.is_required
            /\ result.new.default_provided
            /\ result.new.config_type = result.field.config_type
            /\ result.new.description = result.field.description
            /\ IF ~result.field.default_provided
               THEN result.new.default_value = result.additional
               ELSE /\ DOMAIN result.new.default_value
                         = (DOMAIN result.additional) \cup (DOMAIN result.field.default_value)
                    /\ \A n \in DOMAIN result.additional :
                          result.new.default_value[n] = result.additional[n]
                    /\ \A n \in (DOMAIN result.field.default_value)
                                  \ (DOMAIN result.additional) :
                          result.new.default_value[n] = result.field.default_value[n]

\* a described field whose default was {a: "d", b: "d"} was given the
\* additional default {b: "x"}: the new default is {a: "d", b: "x"}
C20_MergedOverExistingDefault ==
    /\ result.op = "apply_defaults"
    /\ result.field.description = "doc"
    /\ result.field.default_provided
    /\ result.field.default_value = [a |-> Lit("d"), b |-> Lit("d")]
    /\ result.additional = [b |-> Lit("x")]
    /\ result.err = "none"
    /\ result.new.default_value = [a |-> Lit("d"), b |-> Lit("x")]

(***************************************************************************)
(* Configured copies of a definition.  The test of .configured declares a  *)
(* resource with the schema {"creature": str} and an op with the schema    *)
(* {"greeting": str}, configures each twice, and runs a job that has the   *)
(* two resource copies under the keys animal and plant.                    *)
(***************************************************************************)
\* Bound on the number of definitions declared in one process.
MaxDefs == 4

\* the one config key of a definition
ConfigKey(of) == IF of = "resource" THEN "creature" ELSE "greeting"

\* @resource(config_schema={"creature": ...}) / @op(config_schema={"greeting": ...})
Definition(of, field) ==
    [kind |-> "def", of |-> of, parent |-> 0, config |-> EmptyMap,
     config_schema |-> ShapeField([n \in {ConfigKey(of)} |-> field])]

\* definition.configured(config): a copy of the definition whose schema is
\* curried with config; values that do not fit the schema fail
configured(h, a, config) ==
    LET curried == _curry_config_schema(h[a].config_schema, config)
    IN IF curried.err # "none" THEN [err |-> curried.err, heap |-> h]
       ELSE [err |-> "none",
             heap |-> Append(h, [h[a] EXCEPT !.parent = a, !.config = config,
                                             !.config_schema = curried.field])]

\* the config a definition gets in a run without run config
ResolvedConfig(definition) ==
    IF definition.config_schema.default_provided
    THEN definition.config_schema.default_value ELSE EmptyMap

ConfigResolves(definition) ==
    validate_config(definition.config_schema.config_type, ResolvedConfig(definition))

\* emit_creature: return context.resource_config["creature"]
emit_creature(definition) == ResolvedConfig(definition)["creature"]

\* emit_greet_creature: the greeting of the op config and the two resources
emit_greet_creature(definition, resources) ==
    <<ResolvedConfig(definition)["greeting"], resources["animal"], resources["plant"]>>

\* the resources of a run, by key
BuildResources(h, resource_defs) ==
    [k \in DOMAIN resource_defs |-> emit_creature(h[resource_defs[k]])]

\* job(resource_defs=resource_defs).execute_in_process(), for a job of the ops
execute_in_process(h, resource_defs, ops) ==
    IF \E a \in Range(resource_defs) \cup ops :
           \/ ~ConfigResolves(h[a])
           \/ ConfigKey(h[a].of) \notin DOMAIN ResolvedConfig(h[a])
    THEN [success |-> FALSE, resources |-> EmptyMap, outputs |-> EmptyMap]
    ELSE [success |-> TRUE,
          resources |-> BuildResources(h, resource_defs),
          outputs |-> [o \in ops |->
                          emit_greet_creature(h[o], BuildResources(h, resource_defs))]]

\* the fields a definition is declared with: required, or with a default
DeclaredFieldKinds == {ScalarField("String"), DefaultField("String", Lit("cat"))}

\* the values given to .configured: a value for the key of the definition,
\* nothing, or a value for a key the definition does not have
ConfiguredWith(of) ==
    {[n \in {ConfigKey(of)} |-> Lit(v)] : v \in {"dog", "tree"}}
        \cup {EmptyMap, [bogus |-> Lit("dog")]}

DefsOf(h, of) == {a \in DOMAIN h : h[a].kind = "def" /\ h[a].of = of}

\* @resource / @op
DeclareDefinition ==
    /\ Idle
    /\ Len(heap) < MaxDefs
    /\ \E of \in {"resource", "op"}, field \in DeclaredFieldKinds :
         /\ \A a \in DOMAIN heap : heap[a] # Definition(of, field)
         /\ heap' = Append(heap, Definition(of, field))
         /\ env_at_init' = Append(env_at_init, "n/a")
         /\ result' = [op |-> "declare", err |-> "none", uses_env |-> FALSE]
    /\ UNCHANGED env

\* copy = definition.configured(config), on a definition as it was declared
Configure ==
    /\ Idle
    /\ Len(heap) < MaxDefs
    /\ \E a \in DOMAIN heap :
         /\ heap[a].parent = 0
         /\ \E config \in ConfiguredWith(heap[a].of) :
            \E out \in {configured(heap, a, config)} :
              /\ heap' = out.heap
              /\ env_at_init' = IF out.err = "none" THEN Append(env_at_init, "n/a")
                                ELSE env_at_init
              /\ result' = [op |-> "configured", a |-> a, config |-> config,
                            err |-> out.err, before |-> heap]
    /\ UNCHANGED env

\* a job with two resources and some ops is run
ExecuteInProcess ==
    /\ Idle
    /\ \E animal \in DefsOf(heap, "resource"), plant \in DefsOf(heap, "resource") :
       \E ops \in SUBSET DefsOf(heap, "op") :
         LET resource_defs == [animal |-> animal, plant |-> plant]
         IN \E out \in {execute_in_process(heap, resource_defs, ops)} :
              result' = [op |-> "job", resource_defs |-> resource_defs, ops |-> ops,
                         success |-> out.success, resources |-> out.resources,
                         outputs |-> out.outputs]
    /\ UNCHANGED <<heap, env, env_at_init>>

\* the configured machine: definitions are declared, configured and run
ConfiguredNext ==
    \/ DeclareDefinition
    \/ Configure
    \/ ExecuteInProcess
    \/ Return

ConfiguredSpec == Init /\ [][ConfiguredNext]_vars

(***************************************************************************)
(* Claims about configured copies, checked under ConfiguredSpec.           *)
(***************************************************************************)
\* the copies among the definitions
Copies == {a \in DOMAIN heap : heap[a].parent # 0}

\* a copy resolves to the values it was given, and to the defaults of the
\* definition for what it was not given
ResolvesToGiven(a) ==
    /\ ConfigResolves(heap[a])
    /\ \A n \in DOMAIN heap[a].config : ResolvedConfig(heap[a])[n] = heap[a].config[n]
    /\ \A n \in (DOMAIN ResolvedConfig(heap[a])) \ (DOMAIN heap[a].config) :
          /\ heap[heap[a].parent].config_schema.default_provided
          /\ ResolvedConfig(heap[a])[n] = ResolvedConfig(heap[heap[a].parent])[n]

\* C21: configuring one definition several times yields independent
\* definitions: every copy resolves to the values given to it, configuring
\* leaves the definition and the copies made before as they were, and a job
\* that has copies of one resource under two keys sees under each key the
\* value of its copy and succeeds.
C21_ConfiguredCopiesIndependent ==
    /\ \A a \in Copies : ResolvesToGiven(a)
    /\ result.op = "configured" =>
          /\ \A a \in DOMAIN result.before : heap[a] = result.before[a]
          /\ result.err = "none" =>
                /\ Len(heap) = Len(result.before) + 1
                /\ heap[Len(heap)].config = result.config
                /\ heap[Len(heap)].parent = result.a
    /\ (result.op = "job" /\ \A a \in Range(result.resource_defs) \cup result.ops :
                                  a \in Copies /\ heap[a].config # EmptyMap) =>
          /\ result.success
          /\ \A k \in DOMAIN result.resource_defs :
                result.resources[k] = heap[result.resource_defs[k]].config["creature"]
          /\ \A o \in result.ops :
                result.outputs[o] = <<heap[o].config["greeting"],
                                      result.resources["animal"],
                                      result.resources["plant"]>>

\* the job of the test ran: the copies of one resource configured with dog and
\* with tree are under the keys animal and plant, and the run succeeded with
\* dog and tree for resources
C21_TwoCopiesInOneJob ==
    /\ result.op = "job"
    /\ result.resource_defs["animal"] # result.resource_defs["plant"]
    /\ heap[result.resource_defs["animal"]].parent
           = heap[result.resource_defs["plant"]].parent
    /\ heap[result.resource_defs["animal"]].parent # 0
    /\ heap[result.resource_defs["animal"]].config = [creature |-> Lit("dog")]
    /\ heap[result.resource_defs["plant"]].config = [creature |-> Lit("tree")]
    /\ result.success
    /\ result.resources = [animal |-> Lit("dog"), plant |-> Lit("tree")]

(***************************************************************************)
(* Schema inference from a config class.  A class is                       *)
(*   [name, is_config, extra, doc, fields]                                 *)
(* with fields the pydantic ModelFields of __fields__, in declaration      *)
(* order:                                                                  *)
(*   [name, alias, type_, shape, key_field, sub_fields, default, required, *)
(*    allow_none, description, discriminator, sub_fields_mapping]          *)
(* type_ is a python type [py |-> ...]; a class type carries the class.    *)
(***************************************************************************)
\* pydantic.fields shape types
SHAPE_SINGLETON == "SHAPE_SINGLETON"
SHAPE_LIST == "SHAPE_LIST"
SHAPE_SET == "SHAPE_SET"
SHAPE_MAPPING == "SHAPE_MAPPING"
SHAPE_DICT == "SHAPE_DICT"

MAPPING_TYPES == {SHAPE_MAPPING, SHAPE_DICT}

\* dagster config types
StringSource == [kind |-> "StringSource"]
IntSource == [kind |-> "IntSource"]
BoolSource == [kind |-> "BoolSource"]
ConfigFloatInstance == [kind |-> "Float"]
DagsterEnum(name) == [kind |-> "Enum", name |-> name]
Array(inner_type) == [kind |-> "Array", inner_type |-> inner_type]
Map(key_type, inner_type) == [kind |-> "Map", key_type |-> key_type, inner_type |-> inner_type]
Noneable(inner_type) == [kind |-> "Noneable", inner_type |-> inner_type]
Shape(fields) == [kind |-> "Shape", fields |-> fields]
Permissive(fields) == [kind |-> "Permissive", fields |-> fields]
Selector(fields) == [kind |-> "Selector", fields |-> fields]

\* the scalar of a Map key, by config type
MAPPING_KEY_TYPE_TO_SCALAR ==
    [t \in {StringSource, IntSource, BoolSource, ConfigFloatInstance} |->
        CASE t = StringSource -> "str"
          [] t = IntSource -> "int"
          [] t = BoolSource -> "bool"
          [] OTHER -> "float"]

\* every container kind is wrapped as a list is
_wrap_config_type_as_list(shape_type, key_type, config_type) ==
    [err |-> "none",
     config_type |-> IF shape_type = SHAPE_SINGLETON THEN config_type ELSE Array(config_type)]

\* _wrap_config_type: returns [err, config_type]
_wrap_config_type(shape_type, key_type, config_type) ==
    IF shape_type = SHAPE_SINGLETON THEN [err |-> "none", config_type |-> config_type]
    ELSE IF shape_type = SHAPE_LIST THEN [err |-> "none", config_type |-> Array(config_type)]
    ELSE IF shape_type \in MAPPING_TYPES
    THEN IF key_type \notin DOMAIN MAPPING_KEY_TYPE_TO_SCALAR
         THEN [err |-> "NotImplementedError", config_type |-> NoneVal]
         ELSE [err |-> "none",
               config_type |-> Map(MAPPING_KEY_TYPE_TO_SCALAR[key_type], config_type)]
    ELSE [err |-> "NotImplementedError", config_type |-> NoneVal]

\* python types of fields
PyType(py) == [py |-> py]
ClassType(cls) == [py |-> "class", cls |-> cls]

\* safe_is_subclass(type_, Config)
IsConfigClass(type_) == type_.py = "class" /\ type_.cls.is_config

\* _config_type_for_type_on_pydantic_field: returns [err, config_type]
_config_type_for_type_on_pydantic_field(potential_dagster_type) ==
    CASE potential_dagster_type.py \in {"str", "ConstrainedStr"} ->
             [err |-> "none", config_type |-> StringSource]
      [] potential_dagster_type.py \in {"int", "ConstrainedInt"} ->
             [err |-> "none", config_type |-> IntSource]
      [] potential_dagster_type.py = "bool" ->
             [err |-> "none", config_type |-> BoolSource]
      [] potential_dagster_type.py \in {"float", "ConstrainedFloat"} ->
             [err |-> "none", config_type |-> ConfigFloatInstance]
      [] potential_dagster_type.py = "Enum" ->
             [err |-> "none", config_type |-> DagsterEnum(potential_dagster_type.name)]
      [] OTHER ->
             [err |-> "DagsterInvalidConfigDefinitionError", config_type |-> NoneVal]

_config_type_for_pydantic_field(pydantic_field) ==
    _config_type_for_type_on_pydantic_field(pydantic_field.type_)

\* _is_pydantic_field_required
_is_pydantic_field_required(pydantic_field) == pydantic_field.required

\* the legacy dagster.Field given for the default of a class attribute
LegacyField == [t |-> "dagster.Field"]

\* dagster.Field(config, description=description): required unless every field
\* of the shape is optional, and then with the defaults of the fields for default
FieldOfType(config, description) ==
    LET all_optional ==
            /\ config.kind \in {"Shape", "Permissive"}
            /\ \A n \in DOMAIN config.fields : ~config.fields[n].is_required
    IN [config_type |-> config,
        is_required |-> ~all_optional,
        default_provided |-> all_optional,
        default_value |-> IF all_optional THEN FieldDefaults(config.fields) ELSE EmptyMap,
        description |-> description]

\* dagster.Field(config, default_value, is_required, description); default is
\* NoneVal for FIELD_NO_DEFAULT_PROVIDED
Field(config, default, is_required, description) ==
    [config_type |-> config,
     is_required |-> IF default # NoneVal THEN FALSE ELSE is_required,
     default_provided |-> default # NoneVal,
     default_value |-> IF default # NoneVal THEN default ELSE EmptyMap,
     description |-> description]

\* _get_inner_field_if_exists: returns [err, field]; field is NoneVal for None
_get_inner_field_if_exists(shape_type, field) ==
    IF shape_type = SHAPE_SINGLETON THEN [err |-> "none", field |-> NoneVal]
    ELSE IF shape_type = SHAPE_LIST \/ shape_type \in MAPPING_TYPES
    THEN [err |-> "none", field |-> field.sub_fields[1]]
    ELSE [err |-> "NotImplementedError", field |-> NoneVal]

\* the outcome of a conversion that raised
NoField(err) == [err |-> err, field |-> NoneVal]

\* description or docstring
DescriptionOr(description, docstring) ==
    IF description # NoneStr THEN description ELSE docstring

\* the field of a wrapped config type, or the error of the wrapping
WrappedField(pydantic_field, wrapped, default, description) ==
    IF wrapped.err # "none" THEN NoField(wrapped.err)
    ELSE [err |-> "none",
          field |-> Field(IF pydantic_field.allow_none
                          THEN Noneable(wrapped.config_type) ELSE wrapped.config_type,
                          default, _is_pydantic_field_required(pydantic_field),
                          description)]

RECURSIVE _convert_pydantic_field(_)
RECURSIVE infer_schema_from_config_class_fields(_, _, _, _)

\* a legacy dagster.Field for default is converted like any other default
legacy_field_allowed(model_cls, fields_to_omit, i, fields) ==
    IF i > Len(model_cls.fields) THEN [err |-> "none", fields |-> fields]
    ELSE IF model_cls.fields[i].name \in fields_to_omit
    THEN infer_schema_from_config_class_fields(model_cls, fields_to_omit, i + 1, fields)
    ELSE LET converted == _convert_pydantic_field(model_cls.fields[i])
         IN IF converted.err = "DagsterInvalidConfigDefinitionError"
            THEN [err |-> "DagsterInvalidPythonicConfigDefinitionError", fields |-> EmptyMap]
            ELSE IF converted.err # "none" THEN [err |-> converted.err, fields |-> EmptyMap]
            ELSE infer_schema_from_config_class_fields(
                     model_cls, fields_to_omit, i + 1,
                     Merge(fields, [n \in {model_cls.fields[i].alias} |-> converted.field]))

\* the loop of infer_schema_from_config_class over model_cls.__fields__, from
\* the i-th field on: returns [err, fields]
infer_schema_from_config_class_fields(model_cls, fields_to_omit, i, fields) ==
    IF i > Len(model_cls.fields) THEN [err |-> "none", fields |-> fields]
    ELSE IF model_cls.fields[i].name \in fields_to_omit
    THEN infer_schema_from_config_class_fields(model_cls, fields_to_omit, i + 1, fields)
    ELSE IF model_cls.fields[i].default = LegacyField
    THEN [err |-> "DagsterInvalidDefinitionError", fields |-> EmptyMap]
    ELSE LET converted == _convert_pydantic_field(model_cls.fields[i])
         IN IF converted.err = "DagsterInvalidConfigDefinitionError"
            THEN [err |-> "DagsterInvalidPythonicConfigDefinitionError", fields |-> EmptyMap]
            ELSE IF converted.err # "none" THEN [err |-> converted.err, fields |-> EmptyMap]
            ELSE infer_schema_from_config_class_fields(
                     model_cls, fields_to_omit, i + 1,
                     Merge(fields, [n \in {model_cls.fields[i].alias} |-> converted.field]))

\* every class gets a closed Shape
infer_schema_closed(model_cls, description, fields_to_omit) ==
    LET r == infer_schema_from_config_class_fields(model_cls, fields_to_omit, 1, EmptyMap)
    IN IF ~model_cls.is_config THEN NoField("CheckError")
       ELSE IF r.err # "none" THEN NoField(r.err)
       ELSE [err |-> "none",
             field |-> FieldOfType(Shape(r.fields),
                                   DescriptionOr(description, model_cls.doc))]

\* infer_schema_from_config_class(model_cls, description, fields_to_omit), for
\* a class given by its pydantic fields: returns [err, field]
infer_schema(model_cls, description, fields_to_omit) ==
    LET r == infer_schema_from_config_class_fields(model_cls, fields_to_omit, 1, EmptyMap)
    IN IF ~model_cls.is_config THEN NoField("CheckError")
       ELSE IF r.err # "none" THEN NoField(r.err)
       ELSE [err |-> "none",
             field |-> FieldOfType(IF model_cls.extra = "allow"
                                   THEN Permissive(r.fields) ELSE Shape(r.fields),
                                   DescriptionOr(description, model_cls.doc))]

\* the branches keep the discriminator field
union_field_keeping_discriminator(pydantic_field) ==
    LET sub_fields_mapping == pydantic_field.sub_fields_mapping
        branch(v) == infer_schema(sub_fields_mapping[v].type_.cls, NoneStr, {})
    IN IF sub_fields_mapping = EmptyMap
          \/ \E v \in DOMAIN sub_fields_mapping : ~IsConfigClass(sub_fields_mapping[v].type_)
       THEN NoField("NotImplementedError")
       ELSE IF \E v \in DOMAIN sub_fields_mapping : branch(v).err # "none"
       THEN NoField((branch(CHOOSE v \in DOMAIN sub_fields_mapping :
                                branch(v).err # "none")).err)
       ELSE [err |-> "none",
             field |-> FieldOfType(
                           Selector([v \in DOMAIN sub_fields_mapping |-> branch(v).field]),
                           NoneStr)]

\* _convert_pydantic_descriminated_union_field: returns [err, field]
_convert_pydantic_descriminated_union_field(pydantic_field) ==
    LET sub_fields_mapping == pydantic_field.sub_fields_mapping
        branch(v) == infer_schema(sub_fields_mapping[v].type_.cls, NoneStr,
                                  {pydantic_field.discriminator})
    IN IF sub_fields_mapping = EmptyMap
          \/ \E v \in DOMAIN sub_fields_mapping : ~IsConfigClass(sub_fields_mapping[v].type_)
       THEN NoField("NotImplementedError")
       ELSE IF \E v \in DOMAIN sub_fields_mapping : branch(v).err # "none"
       THEN NoField((branch(CHOOSE v \in DOMAIN sub_fields_mapping :
                                branch(v).err # "none")).err)
       ELSE [err |-> "none",
             field |-> FieldOfType(
                           Selector([v \in DOMAIN sub_fields_mapping |-> branch(v).field]),
                           NoneStr)]

\* the key type of a mapping field: [err, config_type], NoneVal for None
KeyType(pydantic_field) ==
    IF pydantic_field.key_field # NoneVal
    THEN _config_type_for_pydantic_field(pydantic_field.key_field)
    ELSE [err |-> "none", config_type |-> NoneVal]

\* the config type of a field that is not a config class: that of its inner
\* field if it has one, else that of its type
InnerConfigType(pydantic_field, inner_field) ==
    IF inner_field.err # "none" THEN [err |-> inner_field.err, config_type |-> NoneVal]
    ELSE IF inner_field.field # NoneVal
    THEN LET inner == _convert_pydantic_field(inner_field.field)
         IN [err |-> inner.err,
             config_type |-> IF inner.err = "none" THEN inner.field.config_type ELSE NoneVal]
    ELSE _config_type_for_pydantic_field(pydantic_field)

\* _convert_pydantic_field: returns [err, field]
_convert_pydantic_field(pydantic_field) ==
    LET key_type == KeyType(pydantic_field)
    IN IF key_type.err # "none" THEN NoField(key_type.err)
       ELSE IF pydantic_field.discriminator # NoneStr
       THEN _convert_pydantic_descriminated_union_field(pydantic_field)
       ELSE IF IsConfigClass(pydantic_field.type_)
       THEN LET inferred_field == infer_schema(pydantic_field.type_.cls,
                                               pydantic_field.description, {})
            IN IF inferred_field.err # "none" THEN NoField(inferred_field.err)
               ELSE WrappedField(pydantic_field,
                                 _wrap_config_type(pydantic_field.shape, key_type.config_type,
                                                   inferred_field.field.config_type),
                                 NoneVal, inferred_field.field.description)
       ELSE LET config_type ==
                    InnerConfigType(pydantic_field,
                                    _get_inner_field_if_exists(pydantic_field.shape,
                                                               pydantic_field))
            IN IF config_type.err # "none" THEN NoField(config_type.err)
               ELSE WrappedField(pydantic_field,
                                 _wrap_config_type(pydantic_field.shape, key_type.config_type,
                                                   config_type.config_type),
                                 pydantic_field.default, pydantic_field.description)

(***************************************************************************)
(* The config classes schema inference is applied to.                      *)
(***************************************************************************)
\* name: type_, a required field without alias or default
PydanticField(name, type_) ==
    [name |-> name, alias |-> name, type_ |-> type_, shape |-> SHAPE_SINGLETON,
     key_field |-> NoneVal, sub_fields |-> << >>, default |-> NoneVal,
     required |-> TRUE, allow_none |-> FALSE, description |-> NoneStr,
     discriminator |-> NoneStr, sub_fields_mapping |-> EmptyMap]

\* name: List[type_] and the like
ContainerField(name, shape, type_) ==
    [PydanticField(name, type_) EXCEPT
        !.shape = shape, !.sub_fields = <<PydanticField("_" \o name, type_)>>]

\* name: Dict[key, type_] and the like
MappingField(name, shape, key, type_) ==
    [ContainerField(name, shape, type_) EXCEPT
        !.key_field = PydanticField("key_" \o name, key)]

\* class name(Config) / class name(PermissiveConfig) / class name(BaseModel)
ConfigClass(name, extra, fields) ==
    [name |-> name, is_config |-> TRUE, extra |-> extra, doc |-> NoneStr, fields |-> fields]

\* the members of the union: Cat and Dog are config classes, Fish is a plain
\* pydantic model
Cat ==
    ConfigClass("Cat", "ignore",
                <<PydanticField("pet_type", PyType("Literal")),
                  PydanticField("meows", PyType("int"))>>)

Dog ==
    ConfigClass("Dog", "ignore",
                <<PydanticField("pet_type", PyType("Literal")),
                  PydanticField("barks", PyType("float"))>>)

Fish ==
    [ConfigClass("Fish", "ignore", <<PydanticField("pet_type", PyType("Literal"))>>)
        EXCEPT !.is_config = FALSE]

\* a nested config class, documented, and one that declares a legacy field
Inner ==
    [ConfigClass("Inner", "ignore", <<PydanticField("x", PyType("str"))>>)
        EXCEPT !.doc = "inner doc"]

InnerLegacy ==
    ConfigClass("InnerLegacy", "ignore",
                <<[PydanticField("x", PyType("str")) EXCEPT
                      !.default = LegacyField, !.required = FALSE]>>)

\* name: Union[members] = Field(..., discriminator="pet_type", alias=alias)
UnionField(name, alias, members) ==
    [PydanticField(name, ClassType(Cat)) EXCEPT
        !.alias = alias, !.discriminator = "pet_type",
        !.sub_fields_mapping = members]

\* discriminator value -> member field
Members(classes) ==
    [v \in DOMAIN classes |-> PydanticField("pet_" \o classes[v].name, ClassType(classes[v]))]

UnionFields ==
    {UnionField("pet", alias, Members(classes)) :
        alias \in {"pet", "my_pet"},
        classes \in {[cat |-> Cat, dog |-> Dog], [cat |-> Cat, kitty |-> Cat],
                     [dog |-> Dog], [cat |-> Cat, fish |-> Fish],
                     [cat |-> Cat, dog |-> InnerLegacy]}}

\* the key types of mappings
KeyPyTypes ==
    {PyType("str"), PyType("int"), PyType("bool"), PyType("float"),
     PyType("ConstrainedStr"), [py |-> "Enum", name |-> "Color"], PyType("object")}

\* the fields of the classes
FieldPool ==
    {PydanticField("a", PyType("str")),
     [PydanticField("n", PyType("int")) EXCEPT
         !.alias = "count", !.default = Lit("1"), !.required = FALSE],
     [PydanticField("opt", PyType("float")) EXCEPT
         !.allow_none = TRUE, !.required = FALSE, !.description = "optional"],
     PydanticField("obj", PyType("object")),
     [PydanticField("legacy", PyType("str")) EXCEPT
         !.default = LegacyField, !.required = FALSE],
     ContainerField("tags", SHAPE_LIST, PyType("str")),
     ContainerField("s", SHAPE_SET, PyType("str")),
     PydanticField("inner", ClassType(Inner)),
     ContainerField("inners", SHAPE_LIST, ClassType(Inner)),
     ContainerField("inner_set", SHAPE_SET, ClassType(Inner)),
     PydanticField("inner_legacy", ClassType(InnerLegacy))}
        \cup {MappingField("m", shape, key, PyType("int")) :
                 shape \in MAPPING_TYPES, key \in KeyPyTypes}
        \cup UnionFields

\* the fields of a class: one field, or two of different names and aliases
FieldLists ==
    {<<f>> : f \in FieldPool}
        \cup {fs \in {<<f, g>> : f \in FieldPool, g \in FieldPool} :
                 fs[1].name # fs[2].name /\ fs[1].alias # fs[2].alias}

\* the classes inference is applied to: with extras ignored, forbidden or
\* allowed; and a class that is not a config class
ConfigClasses ==
    {ConfigClass("C", extra, fields) :
        extra \in {"ignore", "forbid", "allow"}, fields \in FieldLists} \cup {Fish}

FieldNames(model_cls) == {model_cls.fields[i].name : i \in DOMAIN model_cls.fields}

(***************************************************************************)
(* Config.__init__ of a raw config dict.  A raw value is a scalar Lit(v)    *)
(* or a dict DictVal(items).                                               *)
(***************************************************************************)
DictVal(items) == [t |-> "dict", items |-> items]

\* self.__fields__.get(key): the fields are kept by name
FieldsGet(model_cls, key) ==
    IF \E i \in DOMAIN model_cls.fields : model_cls.fields[i].name = key
    THEN model_cls.fields[CHOOSE i \in DOMAIN model_cls.fields :
                              model_cls.fields[i].name = key]
    ELSE NoneVal

\* what the loop of Config.__init__ does for one key: [err, value]
ModifiedValue(field, value) ==
    IF field = NoneVal THEN [err |-> "none", value |-> value]
    ELSE IF field.discriminator = NoneStr THEN [err |-> "none", value |-> value]
    ELSE IF value.t # "dict" THEN [err |-> "CheckError", value |-> NoneVal]
    ELSE IF Cardinality(DOMAIN value.items) # 1 THEN [err |-> "CheckError", value |-> NoneVal]
    ELSE LET discriminated_value == CHOOSE b \in DOMAIN value.items : TRUE
             nested_values == value.items[discriminated_value]
         IN IF nested_values.t # "dict" THEN [err |-> "TypeError", value |-> NoneVal]
            ELSE [err |-> "none",
                  value |-> DictVal(Merge(nested_values.items,
                                          [n \in {field.discriminator} |->
                                              Lit(discriminated_value)]))]

\* the union values are passed on as they are given
Config_init_unmodified(model_cls, config_dict) ==
    [err |-> "none", modified_data |-> config_dict]

\* Config.__init__: returns [err, modified_data], the data passed on to
\* pydantic's BaseModel.__init__
Config_init(model_cls, config_dict) ==
    LET modified(key) == ModifiedValue(FieldsGet(model_cls, key), config_dict[key])
    IN IF \E key \in DOMAIN config_dict : modified(key).err # "none"
       THEN [err |-> (modified(CHOOSE key \in DOMAIN config_dict :
                                   modified(key).err # "none")).err,
             modified_data |-> EmptyMap]
       ELSE [err |-> "none",
             modified_data |-> [key \in DOMAIN config_dict |-> modified(key).value]]

\* the classes instances are built of: a union field and a plain field
OwnerClasses ==
    {ConfigClass("Owner", "ignore", <<u, PydanticField("name", PyType("str"))>>) :
        u \in {f \in UnionFields :
                  DOMAIN f.sub_fields_mapping = {"cat", "dog"}
                  /\ \A v \in DOMAIN f.sub_fields_mapping :
                        f.sub_fields_mapping[v].type_.cls \in {Cat, Dog}}}

\* the raw values: scalars, and dicts of no, one, and two branches
RawValues ==
    {Lit("x"),
     DictVal(EmptyMap),
     DictVal([cat |-> DictVal([meows |-> Lit("3")])]),
     DictVal([dog |-> DictVal([barks |-> Lit("1.5")])]),
     DictVal([cat |-> DictVal([meows |-> Lit("3"), pet_type |-> Lit("dog")])]),
     DictVal([cat |-> Lit("3")]),
     DictVal([cat |-> DictVal([meows |-> Lit("3")]),
              dog |-> DictVal([barks |-> Lit("1.5")])])}

\* the raw dicts: values under the keys pydantic takes, which are the aliases
\* of the fields, and under a key of no field
RawDicts(model_cls) ==
    UNION {[D -> RawValues] :
              D \in (SUBSET ({model_cls.fields[i].alias : i \in DOMAIN model_cls.fields}
                                \cup {"other"})) \ {{}}}

(***************************************************************************)
(* The inference machine.                                                  *)
(***************************************************************************)
\* infer_schema_from_config_class(model_cls, description, fields_to_omit)
InferSchema ==
    /\ Idle
    /\ \E model_cls \in ConfigClasses, description \in {NoneStr, "described"} :
       \E fields_to_omit \in SUBSET FieldNames(model_cls) :
       \E out \in {infer_schema(model_cls, description, fields_to_omit)} :
          result' = [op |-> "infer", model_cls |-> model_cls, description |-> description,
                     fields_to_omit |-> fields_to_omit, err |-> out.err, field |-> out.field]
    /\ UNCHANGED <<heap, env, env_at_init>>

\* _convert_pydantic_field(pydantic_field), for a field with a discriminator
ConvertUnionField ==
    /\ Idle
    /\ \E pydantic_field \in UnionFields :
       \E out \in {_convert_pydantic_field(pydantic_field)} :
          result' = [op |-> "union", pydantic_field |-> pydantic_field,
                     err |-> out.err, field |-> out.field]
    /\ UNCHANGED <<heap, env, env_at_init>>

\* the shape types of pydantic fields
ShapeTypes == {SHAPE_SINGLETON, SHAPE_LIST, SHAPE_SET, SHAPE_MAPPING, SHAPE_DICT,
               "SHAPE_TUPLE"}

\* the config types of keys: None for a field without key, and config types
KeyConfigTypes ==
    {NoneVal, StringSource, IntSource, BoolSource, ConfigFloatInstance,
     DagsterEnum("Color"), [kind |-> "Any"]}

\* the config types of values
ValueConfigTypes ==
    {StringSource, IntSource, Array(StringSource),
     Shape([x |-> Field(StringSource, NoneVal, TRUE, NoneStr)])}

\* _wrap_config_type(shape_type, key_type, config_type)
WrapConfigType ==
    /\ Idle
    /\ \E shape_type \in ShapeTypes, key_type \in KeyConfigTypes,
          config_type \in ValueConfigTypes :
       \E out \in {_wrap_config_type(shape_type, key_type, config_type)} :
          result' = [op |-> "wrap", shape_type |-> shape_type, key_type |-> key_type,
                     config_type |-> config_type, err |-> out.err,
                     wrapped |-> out.config_type]
    /\ UNCHANGED <<heap, env, env_at_init>>

\* model_cls(**config_dict)
ConstructConfig ==
    /\ Idle
    /\ \E model_cls \in OwnerClasses :
       \E config_dict \in RawDicts(model_cls) :
       \E out \in {Config_init(model_cls, config_dict)} :
          result' = [op |-> "config_init", model_cls |-> model_cls,
                     config_dict |-> config_dict, err |-> out.err,
                     modified_data |-> out.modified_data]
    /\ UNCHANGED <<heap, env, env_at_init>>

InferNext ==
    \/ InferSchema
    \/ ConvertUnionField
    \/ WrapConfigType
    \/ ConstructConfig
    \/ Return

InferSpec == Init /\ [][InferNext]_vars

(***************************************************************************)
(* Claims about config classes, checked under InferSpec.                   *)
(***************************************************************************)
\* the keys of a raw dict that give a discriminated-union field of the class
UnionKeys(model_cls, config_dict) ==
    {model_cls.fields[i].alias :
        i \in {j \in DOMAIN model_cls.fields : model_cls.fields[j].discriminator # NoneStr}}
        \cap DOMAIN config_dict

\* the discriminator of the union field given under the key
DiscriminatorOf(model_cls, key) ==
    model_cls.fields[CHOOSE i \in DOMAIN model_cls.fields :
                         model_cls.fields[i].alias = key].discriminator

OneKeyDict(value) == value.t = "dict" /\ Cardinality(DOMAIN value.items) = 1

\* the one branch of a single-key dict, and its values
BranchOf(value) == CHOOSE b \in DOMAIN value.items : TRUE

\* C22: when a Config object is built from a raw dict, each discriminated-union
\* field given as a single-key dict {branch: values} is rewritten to the
\* branch's values plus the discriminator key set to the branch name; a union
\* value that does not have exactly one key is rejected; every field that is
\* not a discriminated union is passed through unchanged.
C22_UnionValuesRewritten ==
    result.op = "config_init" =>
       LET union_keys == UnionKeys(result.model_cls, result.config_dict)
       IN IF \E k \in union_keys : ~OneKeyDict(result.config_dict[k])
          THEN result.err # "none"
          ELSE /\ \A k \in union_keys :
                     LET branch == BranchOf(result.config_dict[k])
                         values == result.config_dict[k].items[branch]
                     IN values.t = "dict" =>
                           /\ result.err = "none"
                           /\ result.modified_data[k] =
                                 DictVal(Merge(values.items,
                                               [n \in {DiscriminatorOf(result.model_cls, k)}
                                                   |-> Lit(branch)]))
               /\ result.err = "none" =>
                     \A k \in (DOMAIN result.config_dict) \ union_keys :
                        result.modified_data[k] = result.config_dict[k]

\* the member class without its discriminator field
WithoutField(cls, name) ==
    LET Keep(f) == f.name # name
    IN [cls EXCEPT !.fields = SelectSeq(cls.fields, Keep)]

\* the class of a member of the union
MemberClass(pydantic_field, v) == pydantic_field.sub_fields_mapping[v].type_.cls

\* C23: schema inference turns a discriminated-union field into a Selector
\* whose branch keys are exactly the discriminator values of the members of
\* the union and whose branch schemas are the schemas inferred for the members
\* without the discriminator field; a union with a member that is not a Config
\* class is rejected with an error.
C23_UnionBecomesSelector ==
    result.op = "union" =>
       LET pydantic_field == result.pydantic_field
           values == DOMAIN pydantic_field.sub_fields_mapping
           branch(v) == infer_schema(WithoutField(MemberClass(pydantic_field, v),
                                                  pydantic_field.discriminator),
                                     NoneStr, {})
       IN IF \E v \in values : ~MemberClass(pydantic_field, v).is_config
          THEN result.err = "NotImplementedError" /\ result.field = NoneVal
          ELSE IF \E v \in values : branch(v).err # "none"
          THEN result.err # "none" /\ result.field = NoneVal
          ELSE /\ result.err = "none"
               /\ result.field.config_type.kind = "Selector"
               /\ DOMAIN result.field.config_type.fields = values
               /\ \A v \in values :
                     /\ result.field.config_type.fields[v] = branch(v).field
                     /\ pydantic_field.discriminator
                            \notin DOMAIN result.field.config_type.fields[v].config_type.fields

\* the union of Cat and Dog became a Selector with the branches cat, of the
\* field meows, and dog, of the field barks
C23_CatDogSelector ==
    /\ result.op = "union"
    /\ result.err = "none"
    /\ result.pydantic_field.alias = "my_pet"
    /\ result.field.config_type.kind = "Selector"
    /\ DOMAIN result.field.config_type.fields = {"cat", "dog"}
    /\ DOMAIN result.field.config_type.fields["cat"].config_type.fields = {"meows"}
    /\ DOMAIN result.field.config_type.fields["dog"].config_type.fields = {"barks"}
    /\ result.field.config_type.fields["cat"].config_type.fields["meows"].config_type
           = IntSource

\* the fields of the class that are not omitted
KeptFields(model_cls, fields_to_omit) ==
    {i \in DOMAIN model_cls.fields : model_cls.fields[i].name \notin fields_to_omit}

\* C24: the schema inferred for a config class is a Permissive container if
\* and only if the class declared extras as allowed, and a closed Shape
\* otherwise; either has exactly one entry, keyed by the alias of the field,
\* for every field of the class whose name is not in fields_to_omit.
C24_PermissiveIffExtrasAllowed ==
    (result.op = "infer" /\ result.err = "none") =>
       LET kept == KeptFields(result.model_cls, result.fields_to_omit)
           entries == result.field.config_type.fields
       IN /\ result.field.config_type.kind = "Permissive"
                <=> result.model_cls.extra = "allow"
          /\ result.field.config_type.kind = "Shape"
                <=> result.model_cls.extra # "allow"
          /\ DOMAIN entries = {result.model_cls.fields[i].alias : i \in kept}
          /\ Cardinality(DOMAIN entries) = Cardinality(kept)
          /\ \A i \in kept :
                entries[result.model_cls.fields[i].alias]
                    = _convert_pydantic_field(result.model_cls.fields[i]).field

\* a class that allows extras, with the field n of alias count and a list
\* field that is omitted, was inferred to a Permissive with the one key count
C24_PermissiveKeyedByAlias ==
    /\ result.op = "infer"
    /\ result.err = "none"
    /\ result.model_cls.extra = "allow"
    /\ Len(result.model_cls.fields) = 2
    /\ result.model_cls.fields[1].name = "n"
    /\ result.fields_to_omit = {"tags"}
    /\ result.field.config_type.kind = "Permissive"
    /\ DOMAIN result.field.config_type.fields = {"count"}

\* the kept fields that have a legacy dagster.Field for default
LegacyFields(model_cls, fields_to_omit) ==
    {i \in KeptFields(model_cls, fields_to_omit) : model_cls.fields[i].default = LegacyField}

\* the kept fields that cannot be converted
Unconvertible(model_cls, fields_to_omit) ==
    {i \in KeptFields(model_cls, fields_to_omit) :
        /\ model_cls.fields[i].default # LegacyField
        /\ _convert_pydantic_field(model_cls.fields[i]).err # "none"}

First(S) == CHOOSE i \in S : \A j \in S : i <= j

\* the error inference raises for a field that cannot be converted
RaisedFor(pydantic_field) ==
    IF _convert_pydantic_field(pydantic_field).err = "DagsterInvalidConfigDefinitionError"
    THEN "DagsterInvalidPythonicConfigDefinitionError"
    ELSE _convert_pydantic_field(pydantic_field).err

\* C25 as stated: schema inference fails with a definition error, and produces
\* no schema, when any field that is not in fields_to_omit has a legacy
\* dagster.Field as its declared default.
C25_LegacyFieldRaisesDefinitionError ==
    (result.op = "infer" /\ result.model_cls.is_config
        /\ LegacyFields(result.model_cls, result.fields_to_omit) # {}) =>
       /\ result.err \in {"DagsterInvalidDefinitionError",
                          "DagsterInvalidPythonicConfigDefinitionError"}
       /\ result.field = NoneVal

\* C25: schema inference fails and produces no schema when any field that is
\* not in fields_to_omit has a legacy dagster.Field as its declared default;
\* the error is the definition error unless a kept field declared before the
\* legacy one cannot be converted, and then it is the error of that field.  A
\* field in fields_to_omit is skipped entirely: with a legacy Field on omitted
\* fields only, and every kept field convertible, nothing is raised.
C25_LegacyFieldFailsInference ==
    (result.op = "infer" /\ result.model_cls.is_config) =>
       LET legacy == LegacyFields(result.model_cls, result.fields_to_omit)
           unconvertible == Unconvertible(result.model_cls, result.fields_to_omit)
       IN /\ legacy # {} =>
                /\ result.err # "none"
                /\ result.field = NoneVal
                /\ IF \E j \in unconvertible : \A i \in legacy : j < i
                   THEN result.err = RaisedFor(result.model_cls.fields[First(unconvertible)])
                   ELSE result.err = "DagsterInvalidDefinitionError"
          /\ (legacy = {} /\ unconvertible = {}) =>
                /\ result.err = "none"
                /\ result.field # NoneVal

\* a class of the fields a and legacy, none omitted, was inferred: the
\* definition error was raised and there is no schema
C25_LegacyFieldRejected ==
    /\ result.op = "infer"
    /\ Len(result.model_cls.fields) = 2
    /\ result.model_cls.fields[1].name = "a"
    /\ result.model_cls.fields[2].default = LegacyField
    /\ result.fields_to_omit = {}
    /\ result.err = "DagsterInvalidDefinitionError"
    /\ result.field = NoneVal

\* the scalar a Map is keyed by, for the key types a Map can have
KeyScalar(key_type) ==
    CASE key_type = [kind |-> "StringSource"] -> "str"
      [] key_type = [kind |-> "IntSource"] -> "int"
      [] key_type = [kind |-> "BoolSource"] -> "bool"
      [] key_type = [kind |-> "Float"] -> "float"
      [] OTHER -> "no scalar"

\* what the claim says the wrapping of config_type is
WrappedAsClaimed(shape_type, key_type, config_type, err, wrapped) ==
    CASE shape_type = "SHAPE_SINGLETON" -> err = "none" /\ wrapped = config_type
      [] shape_type = "SHAPE_LIST" ->
             err = "none" /\ wrapped = [kind |-> "Array", inner_type |-> config_type]
      [] shape_type \in {"SHAPE_MAPPING", "SHAPE_DICT"} ->
             IF KeyScalar(key_type) # "no scalar"
             THEN /\ err = "none"
                  /\ wrapped = [kind |-> "Map", key_type |-> KeyScalar(key_type),
                                inner_type |-> config_type]
             ELSE err = "NotImplementedError" /\ wrapped = NoneVal
      [] OTHER -> err = "NotImplementedError" /\ wrapped = NoneVal

\* C26: the config type of a field is wrapped according to its container
\* kind: a singleton is left unwrapped, a list becomes Array of the element
\* type, a mapping becomes Map from the key scalar to the value type when the
\* key type is one of string, int, bool or float; a mapping with any other key
\* type, and any other container kind, fails with NotImplementedError.  The
\* same holds for the one field of a class that is inferred, when the types of
\* its keys and values have a config type.
C26_WrappedByContainerKind ==
    /\ result.op = "wrap" =>
          WrappedAsClaimed(result.shape_type, result.key_type, result.config_type,
                           result.err, result.wrapped)
    /\ (result.op = "infer" /\ result.model_cls.is_config
           /\ Len(result.model_cls.fields) = 1 /\ result.fields_to_omit = {}) =>
          LET f == result.model_cls.fields[1]
              key_type == KeyType(f)
              element == _config_type_for_pydantic_field(f)
          IN (/\ f.default # LegacyField /\ f.discriminator = NoneStr /\ ~f.allow_none
              /\ f.type_.py # "class" /\ key_type.err = "none" /\ element.err = "none") =>
                WrappedAsClaimed(f.shape, key_type.config_type, element.config_type,
                                 result.err,
                                 IF result.err = "none"
                                 THEN result.field.config_type.fields[f.alias].config_type
                                 ELSE NoneVal)

\* a dict with int keys was wrapped into a Map keyed by int
C26_IntKeyedMap ==
    /\ result.op = "wrap"
    /\ result.shape_type = SHAPE_DICT
    /\ result.key_type = IntSource
    /\ result.config_type = StringSource
    /\ result.err = "none"
    /\ result.wrapped = Map("int", StringSource)

(***************************************************************************)
(* Partial resources given config at configure_at_launch.                  *)
(***************************************************************************)
\* the keyword arguments of Pair.configure_at_launch: any of the config
\* fields, with a value, and any of the resource fields, with a declared
\* resource
PartialData(h, cls) ==
    UNION {[K -> {Lit("v")} \cup {Ptr(a) : a \in DOMAIN h}] :
              K \in SUBSET Range(ClassFields(cls))}

PartialDataInputs(h, cls) ==
    {d \in PartialData(h, cls) :
        /\ \A n \in DOMAIN d \cap Range(ConfigFields(cls)) : d[n].t = "lit"
        /\ \A n \in DOMAIN d \cap Range(ResourceFields(cls)) : d[n].t = "ptr"}

\* the launch-time config of a partial resource: a value for any of its
\* config fields
PartialLaunchConfigs(obj) ==
    UNION {[K -> {Lit("w")}] : K \in SUBSET Range(ConfigFields(obj.cls))}

\* obj = Pair.configure_at_launch(**data)
ConfigureAtLaunchWith ==
    /\ Idle
    /\ Len(heap) < MaxObjs
    /\ \E data \in PartialDataInputs(heap, "Pair") :
         LET r == PartialResource_init(heap, "Pair", data)
         IN /\ heap' = Append(heap, r.obj)
            /\ env_at_init' = Append(env_at_init, "n/a")
            /\ result' = [op |-> "declare", err |-> r.err, uses_env |-> FALSE]
    /\ UNCHANGED env

\* the resource function of a partial resource, called with the launch-time
\* config of the run
LaunchPartial ==
    /\ Idle
    /\ Top > 0
    /\ heap[Top].kind = "partial"
    /\ \E config \in PartialLaunchConfigs(heap[Top]) :
         LET context == InitResourceContext({}, config)
         IN \E out \in {RunOutcome(Top, context,
                                  ResourceFn(StartOfRun, env, Ptr(Top), context, 0, ""))} :
                /\ heap' = out.heap
                /\ result' = out.result
    /\ UNCHANGED <<env, env_at_init>>

PartialNext ==
    \/ DeclareResource
    \/ ConfigureAtLaunchWith
    \/ SetEnv
    \/ LaunchPartial
    \/ Return

PartialSpec == Init /\ [][PartialNext]_vars

\* a run of the resource function of a partial resource has ended
PartialRan == result.op = "run" /\ heap[result.a].kind = "partial"

GivenAtConfigure == heap[result.a].data

GivenAtLaunch == result.context.resource_config

\* the instances the constructor left in the outermost frame of the run:
\* the one _initialize_and_run was called on
InstancesBuilt ==
    {result.log[i].before : i \in {j \in DOMAIN result.log :
        /\ result.log[j].ev = "step"
        /\ result.log[j].frame = 1
        /\ result.log[j].method = "_resolve_and_update_nested_resources"}}

\* the config values given at configure_at_launch
ConfigGiven(obj) == {k \in DOMAIN obj.data : ~is_coercible_to_resource(obj.data[k])}

ResourcesGiven(obj) == {k \in DOMAIN obj.data : is_coercible_to_resource(obj.data[k])}

====
